---- MODULE Spec2Model ----
(***************************************************************************)
(* RabbitMQService (OmniBus): the message mutation operations              *)
(* deleteMessage, moveMessage, bulkDeleteMessages and bulkMoveMessages,    *)
(* built from a destructive drain over the management API and publishes    *)
(* over one STOMP connection.                                              *)
(*                                                                         *)
(* The broker is two queues, "src" and "tgt".  A frame handed to a         *)
(* connected STOMP client is processed by the broker later, in order; the  *)
(* model never loses a frame that was sent, so every loss it shows is a    *)
(* message the service did not publish.                                    *)
(***************************************************************************)
EXTENDS Bags, FiniteSets, Integers, Sequences, TLC

\* ---- bounds of the model ----
MaxQueue == 3           \* messages in the source queue before the call
MaxIds == 2             \* length of the id list of a bulk call
ChunkLimit == 2         \* stands for the chunk limit of the bulk calls, 1000
MaxChunkQueue == 2      \* messages in the source queue before a chunked call
MaxArray == 5           \* length of an array given to chunkArray
MaxChunkSize == 3       \* chunk size given to chunkArray
MaxEvents == 4          \* events of the STOMP client during a connect()
ReadLimit == 2          \* stands for the default limit of getMessages, 100
MaxBodies == 2          \* bodies given to importMessages
MaxIndex == 3           \* generateInternalId is asked about positions 0..MaxIndex
MaxCalls == 2           \* calls of generateInternalId on the same message
MaxServices == 3        \* broker services the manager creates
MaxAzureQueue == 3      \* messages in an Azure source queue at the start
ReceiveMax == 2         \* stands for the 100 of receiver.receiveMessages
PurgeBatch == 2         \* stands for the batch size of the Azure purge, 100

\* ---- constants of the program ----
DrainCount == 1000      \* "count" of the management API get request
PublishRetries == 2     \* "retries" of publishWithReceipt
ChunkRetries == 2       \* "maxRetries" of retryChunkOperation

\* the raw messages a queue is filled with: properties.message_id ("" is an
\* absent, falsy id) and payload; two messages share the id "a"
RawMessage ==
  { [message_id |-> "a", payload |-> "x"],
    [message_id |-> "a", payload |-> "y"],
    [message_id |-> "b", payload |-> "x"],
    [message_id |-> "",  payload |-> "y"] }
\* ids a caller asks for: broker ids and positional ids
RequestIds == {"a", "b", "0", "1"}

RECURSIVE SeqsUpTo(_, _)
SeqsUpTo(S, n) ==
  IF n = 0 THEN {<<>>}
  ELSE LET shorter == SeqsUpTo(S, n - 1)
       IN shorter \cup {Append(s, x) : s \in {t \in shorter : Len(t) = n - 1}, x \in S}

Min(a, b) == IF a < b THEN a ELSE b

VARIABLES
  queue,      \* broker: queue name -> sequence of raw messages
  connected,  \* stompClient.connected
  inflight,   \* frames published by the client, not yet processed by the broker
  receipts,   \* receipt ids the broker has returned to the client
  call,       \* the call in progress: [op, ids]
  pc,         \* position of the call
  messages,   \* the drained batch (messages / rawMessages)
  cur,        \* moveMessage: position in the list of publishes
  attempt,    \* publishWithReceipt: attempt
  confirmed,  \* moveMessage: batch indices whose publishWithReceipt returned
  result,     \* what the call returned or threw
  before,     \* the queues when the call started
  coord,      \* the chunk loop of a bulk call with more ids than the limit
  purge,      \* a purgeQueue call
  connectCall, \* the promise of a connect() call and its timer
  other,      \* a second call running on the same queue
  listing,    \* what getMessages returned to its caller
  probe,      \* the argument and the result of a helper function
  mgr,        \* ServiceBusManager: its registry and its calls
  connection, \* this.connection of the service: "null" or "connected"
  managementApiUrl, \* this.managementApiUrl: "" until connect() has set it
  edit,       \* the handler that saves an edited message
  azure       \* AzureServiceBusService: its queues and its call

vars == <<queue, connected, inflight, receipts, call, pc, messages, cur,
          attempt, confirmed, result, before, coord, purge,
          connectCall, other, listing, probe, mgr,
          connection, managementApiUrl, edit, azure>>

\* the fields of the service set by connect(), and the other components
more == <<connection, managementApiUrl, edit, azure>>

\* the state of the service the bulk and single-message calls work on
svc == <<queue, connected, inflight, receipts, call, pc, messages, cur,
         attempt, confirmed, result, before, coord, purge>>

\* the state the calls on the queues leave alone
rest == <<connectCall, other, listing, probe, mgr, more>>

NoCall == [op |-> "none", ids |-> <<>>]
Pending == [status |-> "pending", error |-> "", successCount |-> 0,
            failCount |-> 0, affected |-> EmptyBag]
Ok(s, f) == [status |-> "ok", error |-> "", successCount |-> s,
             failCount |-> f, affected |-> EmptyBag]
\* a thrown Error: "affected" is the bag of messages the error object lists;
\* every error the service throws is a plain Error with a text and no list
Thrown(e) == [status |-> "error", error |-> e, successCount |-> 0,
              failCount |-> 0, affected |-> EmptyBag]

\* msg.properties?.message_id || `${i}`, i counted from 0
msgId(msg, i) == IF msg.message_id # "" THEN msg.message_id ELSE ToString(i)

\* the id of the k-th drained message (k counted from 1)
IdAt(msgs, k) == msgId(msgs[k], k - 1)

IdSet(ids) == {ids[i] : i \in 1..Len(ids)}

\* no chunk loop is running
NoCoord ==
  [state |-> "none", ids |-> <<>>, chunkSize |-> 0, chunks |-> <<>>,
   i |-> 0, attempt |-> 0,
   totalSuccessCount |-> 0, totalFailCount |-> 0, failedChunks |-> <<>>,
   lastError |-> "", tried |-> <<>>, finished |-> {}]

\* no purgeQueue call is running
NoPurge ==
  [kind |-> "none", pc |-> "idle", messageCount |-> 0, totalPurged |-> 0,
   removed |-> 0, produced |-> FALSE, status |-> "pending", error |-> "",
   successCount |-> 0]

\* no connect() call has been made
NoConn == [state |-> "none", error |-> "", timer |-> "unset", events |-> <<>>]

\* no second call is running
NoOther == [pc |-> "idle", messageId |-> "", messages |-> <<>>,
            status |-> "pending", error |-> "", during |-> ""]

\* no edited message is being saved
NoEdit == [pc |-> "idle", id |-> "", body |-> "", error |-> ""]

\* an AzureServiceBusService with a client and no call running; a message of
\* a queue is known by its sequenceNumber and is active (anyone may receive
\* it), locked (received in peekLock mode) or completed (gone)
NoAzure ==
  [queue |-> [src |-> <<>>, tgt |-> <<>>], pc |-> "idle", op |-> "none",
   id |-> "", batch |-> <<>>, i |-> 0, todo |-> <<>>, status |-> "pending",
   error |-> ""]

\* no helper function is under examination
NoProbe == [fn |-> "none"]

\* the connection ids the manager is asked about
ConnIds == {"c1", "c2"}

\* a new ServiceBusManager: an empty registry and no call running.
\* services maps an id to the service registered under it; adds and removes
\* are the calls waiting for connect() and disconnect(); open holds the
\* services whose transport is connected; last and event record, for the
\* properties, the last call that completed per id and the step just taken
NoMgr ==
  [services |-> <<>>, adds |-> {}, removes |-> {}, created |-> 0,
   open |-> {}, last |-> [id \in ConnIds |-> "none"],
   event |-> [op |-> "none", id |-> "", outcome |-> ""]]

Frame(dest, k, msg, rcpt) ==
  [destination |-> dest, idx |-> k, msg |-> msg, receipt |-> rcpt]

Init ==
  /\ queue \in {[src |-> s, tgt |-> <<>>] : s \in SeqsUpTo(RawMessage, MaxQueue)}
  /\ connected = TRUE
  /\ inflight = <<>>
  /\ receipts = {}
  /\ call = NoCall
  /\ pc = "idle"
  /\ messages = <<>>
  /\ cur = 0
  /\ attempt = 0
  /\ confirmed = {}
  /\ result = Pending
  /\ before = queue
  /\ connectCall = NoConn
  /\ other = NoOther
  /\ listing = <<>>
  /\ probe = NoProbe
  /\ mgr = NoMgr
  /\ connection = "connected"
  /\ managementApiUrl = "http"
  /\ edit = NoEdit
  /\ azure = NoAzure
  /\ coord = NoCoord
  /\ purge = NoPurge

\* ---- the broker and the connection ----

\* the broker processes the oldest frame: the message joins its destination
\* and, when the frame asked for a receipt and the client is still connected,
\* the receipt reaches watchForReceipt
BrokerAdmit ==
  /\ inflight # <<>>
  /\ LET f == Head(inflight)
     IN /\ queue' = [queue EXCEPT ![f.destination] = Append(@, f.msg)]
        /\ receipts' = IF f.receipt # <<>> /\ connected
                       THEN receipts \cup {f.receipt} ELSE receipts
  /\ inflight' = Tail(inflight)
  /\ UNCHANGED <<connected, call, pc, messages, cur, attempt, confirmed,
                 result, before, coord, purge, rest>>

\* the WebSocket closes (reconnectDelay is 0: no automatic reconnect)
ConnectionLost ==
  /\ connected
  /\ pc \notin {"done", "halted"}
  /\ connected' = FALSE
  /\ UNCHANGED <<queue, inflight, receipts, call, pc, messages, cur, attempt,
                 confirmed, result, before, coord, purge, rest>>

\* ---- entry of the four operations ----

\* The service has been connected: this.connection and this.managementApiUrl
\* are set, so the "Not connected to RabbitMQ" guard of each operation passes.

StartCall(op, ids) ==
  /\ pc = "idle"
  /\ call' = [op |-> op, ids |-> ids]
  /\ pc' = "ensure"
  /\ UNCHANGED <<queue, connected, inflight, receipts, messages, cur, attempt,
                 confirmed, result, before, coord, purge, rest>>

\* await this.ensureConnected(): returns at once when the client is connected,
\* throws when there is no this.connection to reconnect with, and otherwise
\* runs connect() again, which resolves or makes it throw
ensureConnected ==
  /\ pc = "ensure"
  /\ \/ /\ connected
        /\ pc' = "fetch"
        /\ UNCHANGED <<connected, result>>
     \/ /\ ~connected
        /\ connection = "null"
        /\ pc' = "done"
        /\ result' = Thrown("No connection configuration available")
        /\ UNCHANGED connected
     \/ /\ ~connected
        /\ connection # "null"
        /\ \/ /\ connected' = TRUE
              /\ pc' = "fetch"
              /\ UNCHANGED result
           \/ /\ pc' = "done"
              /\ result' = Thrown("Failed to reconnect to RabbitMQ")
              /\ UNCHANGED connected
  /\ UNCHANGED <<queue, inflight, receipts, call, messages, cur, attempt,
                 confirmed, before, coord, purge, rest>>

\* the drain: POST .../get with count 1000 and ackmode ack_requeue_false
Fetch ==
  /\ pc = "fetch"
  /\ \/ LET n == Min(DrainCount, Len(queue["src"]))
        IN /\ messages' = SubSeq(queue["src"], 1, n)
           /\ queue' = [queue EXCEPT !["src"] = SubSeq(@, n + 1, Len(@))]
           /\ pc' = "classify"
           /\ UNCHANGED result
     \/ /\ pc' = "done"
        /\ result' = Thrown("Failed to fetch messages")
        /\ UNCHANGED <<queue, messages>>
  /\ UNCHANGED <<connected, inflight, receipts, call, cur, attempt, confirmed,
                 before, coord, purge, rest>>

\* ---- deleteMessage ----

\* the for loop of deleteMessage: a message whose id is not messageId is
\* published back to the source queue when the client is connected, and is
\* skipped otherwise; the message with the id is never published
RECURSIVE deleteLoop(_, _, _, _)
deleteLoop(msgs, messageId, k, conn) ==
  IF k > Len(msgs) THEN <<>>
  ELSE (IF IdAt(msgs, k) # messageId /\ conn
        THEN <<Frame("src", k, msgs[k], <<>>)>> ELSE <<>>)
       \o deleteLoop(msgs, messageId, k + 1, conn)

\* messageFound after the loop
messageFound(msgs, messageId) ==
  \E k \in 1..Len(msgs) : IdAt(msgs, k) = messageId

\* the loop runs without an await, then the not-found check
deleteClassify ==
  /\ pc = "classify"
  /\ call.op = "deleteMessage"
  /\ inflight' = inflight \o deleteLoop(messages, call.ids[1], 1, connected)
  /\ IF messageFound(messages, call.ids[1])
     THEN /\ pc' = "join"
          /\ UNCHANGED result
     ELSE /\ pc' = "done"
          /\ result' = Thrown("Message not found in queue")
  /\ UNCHANGED <<queue, connected, receipts, call, messages, cur, attempt,
                 confirmed, before, coord, purge, rest>>

\* ---- bulkDeleteMessages (a list of at most 1000 ids) ----

RECURSIVE bulkDeleteLoop(_, _, _, _)
bulkDeleteLoop(msgs, idSet, k, conn) ==
  IF k > Len(msgs) THEN <<>>
  ELSE (IF IdAt(msgs, k) \notin idSet /\ conn
        THEN <<Frame("src", k, msgs[k], <<>>)>> ELSE <<>>)
       \o bulkDeleteLoop(msgs, idSet, k + 1, conn)

\* successCount after the loop of a bulk operation
successCount(msgs, idSet) ==
  Cardinality({k \in 1..Len(msgs) : IdAt(msgs, k) \in idSet})

bulkDeleteClassify ==
  /\ pc = "classify"
  /\ call.op = "bulkDeleteMessages"
  /\ inflight' = inflight \o bulkDeleteLoop(messages, IdSet(call.ids), 1, connected)
  /\ pc' = "join"
  /\ UNCHANGED <<queue, connected, receipts, call, messages, cur, attempt,
                 confirmed, result, before, coord, purge, rest>>

\* ---- bulkMoveMessages (a list of at most 1000 ids) ----

RECURSIVE bulkMoveLoop(_, _, _, _)
bulkMoveLoop(msgs, idSet, k, conn) ==
  IF k > Len(msgs) THEN <<>>
  ELSE (IF ~conn THEN <<>>
        ELSE IF IdAt(msgs, k) \in idSet
        THEN <<Frame("tgt", k, msgs[k], <<>>)>>
        ELSE <<Frame("src", k, msgs[k], <<>>)>>)
       \o bulkMoveLoop(msgs, idSet, k + 1, conn)

bulkMoveClassify ==
  /\ pc = "classify"
  /\ call.op = "bulkMoveMessages"
  /\ inflight' = inflight \o bulkMoveLoop(messages, IdSet(call.ids), 1, connected)
  /\ pc' = "join"
  /\ UNCHANGED <<queue, connected, receipts, call, messages, cur, attempt,
                 confirmed, result, before, coord, purge, rest>>

\* await Promise.all(...): every promise resolves on its own 100 ms timer,
\* whatever the broker has done with the frame
joinPublishes ==
  /\ pc = "join"
  /\ pc' = "done"
  /\ result' =
       IF call.op = "deleteMessage" THEN Ok(0, 0)
       ELSE LET s == successCount(messages, IdSet(call.ids))
            IN Ok(s, Len(call.ids) - s)
  /\ UNCHANGED <<queue, connected, inflight, receipts, call, messages, cur,
                 attempt, confirmed, before, coord, purge, rest>>

\* a bulk call with an empty id list returns {0, 0} before anything else
bulkEmpty(op) ==
  /\ pc = "idle"
  /\ call' = [op |-> op, ids |-> <<>>]
  /\ pc' = "done"
  /\ result' = Ok(0, 0)
  /\ UNCHANGED <<queue, connected, inflight, receipts, messages, cur, attempt,
                 confirmed, before, coord, purge, rest>>

\* ---- moveMessage ----

\* tempMessages.filter(m => m.isTarget), as batch indices
targets(msgs, messageId) == {k \in 1..Len(msgs) : IdAt(msgs, k) = messageId}

\* targets[0]
target(msgs, messageId) ==
  CHOOSE k \in targets(msgs, messageId) :
    \A j \in targets(msgs, messageId) : k <= j

\* tempMessages.filter(m => !m.isTarget), in batch order
nonTargets(msgs, messageId) ==
  SelectSeq([k \in 1..Len(msgs) |-> k], LAMBDA k : IdAt(msgs, k) # messageId)

\* the publishes of moveMessage in the order it makes them: the non-targets
\* to the source queue, then the target to the target queue
publishOrderTargetFirst(msgs, messageId) ==
  <<target(msgs, messageId)>> \o nonTargets(msgs, messageId)

publishOrder(msgs, messageId) ==
  nonTargets(msgs, messageId) \o <<target(msgs, messageId)>>

PubList == publishOrder(messages, call.ids[1])

\* nonTargets go to `/queue/${sourceQueue}`, the target to `/queue/${targetQueue}`
PubDest(i) ==
  IF PubList[i] = target(messages, call.ids[1]) THEN "tgt" ELSE "src"

moveClassify ==
  /\ pc = "classify"
  /\ call.op = "moveMessage"
  /\ IF Len(messages) = 0
     THEN /\ pc' = "done"
          /\ result' = Thrown("No messages available in source queue")
          /\ UNCHANGED <<cur, attempt>>
     ELSE IF targets(messages, call.ids[1]) = {}
     THEN /\ pc' = "done"
          /\ result' = Thrown("Message not found in queue")
          /\ UNCHANGED <<cur, attempt>>
     ELSE /\ pc' = "pwr_enter"
          /\ cur' = 1
          /\ attempt' = 0
          /\ UNCHANGED result
  /\ UNCHANGED <<queue, connected, inflight, receipts, call, messages,
                 confirmed, before, coord, purge, rest>>

\* publishWithReceipt, first line: throws when the client is not connected
pwrEnter ==
  /\ pc = "pwr_enter"
  /\ IF connected
     THEN /\ pc' = "pwr_send"
          /\ attempt' = 0
          /\ UNCHANGED result
     ELSE /\ pc' = "done"
          /\ result' = Thrown("STOMP client not connected")
          /\ UNCHANGED attempt
  /\ UNCHANGED <<queue, connected, inflight, receipts, call, messages, cur,
                 confirmed, before, coord, purge, rest>>

\* an attempt of publishWithReceipt failed: the last one throws, out of
\* moveMessage too; an earlier one is followed by the next attempt
attemptFailed(e) ==
  IF attempt = PublishRetries
  THEN /\ pc' = "done"
       /\ result' = Thrown(e)
       /\ UNCHANGED attempt
  ELSE /\ pc' = "pwr_send"
       /\ attempt' = attempt + 1
       /\ UNCHANGED result

\* one receipt id for all the attempts of a publish
receiptIdReused(i, a) == <<i, 0>>

\* const receiptId = `rcpt-${Date.now()}-${Math.random()...}`: an id no
\* other attempt has, here the number of the publish and of the attempt
receiptId(i, a) == <<i, a>>

\* one attempt: a fresh receipt id, watchForReceipt, publish; publish throws
\* when the client is not connected
pwrSend ==
  /\ pc = "pwr_send"
  /\ IF connected
     THEN /\ inflight' = Append(inflight,
               Frame(PubDest(cur), PubList[cur], messages[PubList[cur]],
                     receiptId(cur, attempt)))
          /\ pc' = "pwr_wait"
          /\ UNCHANGED <<attempt, result>>
     ELSE /\ attemptFailed("There is no underlying STOMP connection")
          /\ UNCHANGED inflight
  /\ UNCHANGED <<queue, connected, receipts, call, messages, cur, confirmed,
                 before, coord, purge, rest>>

\* the receipt of the current attempt arrived: publishWithReceipt returns;
\* moveMessage goes on with the next publish, or is complete
pwrReceipt ==
  /\ pc = "pwr_wait"
  /\ receiptId(cur, attempt) \in receipts
  /\ confirmed' = confirmed \cup {PubList[cur]}
  /\ IF cur = Len(PubList)
     THEN /\ pc' = "done"
          /\ result' = Ok(0, 0)
          /\ UNCHANGED cur
     ELSE /\ pc' = "pwr_enter"
          /\ cur' = cur + 1
          /\ UNCHANGED result
  /\ UNCHANGED <<queue, connected, inflight, receipts, call, messages, attempt,
                 before, coord, purge, rest>>

\* the 5 s timer of the current attempt fired first
pwrTimeout ==
  /\ pc = "pwr_wait"
  /\ attemptFailed("Receipt timeout")
  /\ UNCHANGED <<queue, connected, inflight, receipts, call, messages, cur,
                 confirmed, before, coord, purge, rest>>

\* ---- a bulk call with more ids than the chunk limit ----

\* chunkArray: for (i = 0; i < array.length; i += chunkSize)
\*               chunks.push(array.slice(i, i + chunkSize))
RECURSIVE chunkArrayFrom(_, _, _)
chunkArrayFrom(array, chunkSize, i) ==
  IF i >= Len(array) THEN <<>>
  ELSE <<SubSeq(array, i + 1, Min(i + chunkSize, Len(array)))>>
       \o chunkArrayFrom(array, chunkSize, i + chunkSize)

\* a chunkArray whose loop stops before a last chunk that is not full
chunkArrayFullOnly(array, chunkSize) ==
  [k \in 1..(Len(array) \div chunkSize) |->
     SubSeq(array, (k - 1) * chunkSize + 1, k * chunkSize)]

chunkArray(array, chunkSize) == chunkArrayFrom(array, chunkSize, 0)

\* const chunks = this.chunkArray(messageIds, 1000)
Chunks == coord.chunks

\* the id lists of the chunked calls: one id more than the limit, no id
\* twice (the rotations of the first ChunkLimit + 1 ids of the pool)
ChunkIdPool == SubSeq(<<"a", "b", "0", "1">>, 1, Min(ChunkLimit + 1, 4))
ChunkedIds ==
  {[i \in 1..Len(ChunkIdPool) |-> ChunkIdPool[((i + r - 1) % Len(ChunkIdPool)) + 1]] :
     r \in 0..(Len(ChunkIdPool) - 1)}

\* the call enters the chunk path and retryChunkOperation starts the first
\* attempt of chunk 1: the same operation on the ids of the chunk
StartChunked(op, ids) ==
  /\ pc = "idle"
  /\ Len(ids) > ChunkLimit
  /\ coord' = [state |-> "running", ids |-> ids, chunkSize |-> ChunkLimit,
               chunks |-> chunkArray(ids, ChunkLimit), i |-> 1, attempt |-> 0,
               totalSuccessCount |-> 0, totalFailCount |-> 0,
               failedChunks |-> <<>>, lastError |-> "",
               tried |-> [c \in 1..Len(chunkArray(ids, ChunkLimit)) |->
                            IF c = 1 THEN 1 ELSE 0],
               finished |-> {}]
  /\ call' = [op |-> op, ids |-> chunkArray(ids, ChunkLimit)[1]]
  /\ pc' = "ensure"
  /\ UNCHANGED <<queue, connected, inflight, receipts, messages, cur, attempt,
                 confirmed, result, before, purge, rest>>

\* the loop of retryChunkOperation repeats the chunk it was given
nextIndexSame(i) == i

\* i++ of the chunk loop
nextIndex(i) == i + 1

\* the chunk loop goes on to the next chunk, or the call returns the totals
\* (the list of failed chunks is written to the console and dropped)
chunkLoopStep(c) ==
  IF coord.i < Len(Chunks)
  THEN /\ coord' = [c EXCEPT !.i = nextIndex(coord.i), !.attempt = 0,
                             !.tried[nextIndex(coord.i)] = @ + 1]
       /\ call' = [call EXCEPT !.ids = Chunks[nextIndex(coord.i)]]
       /\ pc' = "ensure"
       /\ result' = Pending
       /\ messages' = <<>>
  ELSE /\ coord' = [c EXCEPT !.state = "returned"]
       /\ call' = [call EXCEPT !.ids = coord.ids]
       /\ pc' = "done"
       /\ result' = Ok(c.totalSuccessCount, c.totalFailCount)
       /\ UNCHANGED messages

\* an attempt returned: the counts of the chunk are added to the totals
chunkSucceeded ==
  /\ coord.state = "running"
  /\ pc = "done"
  /\ result.status = "ok"
  /\ chunkLoopStep([coord EXCEPT
                      !.totalSuccessCount = @ + result.successCount,
                      !.totalFailCount = @ + result.failCount,
                      !.finished = @ \cup {coord.i}])
  /\ UNCHANGED <<queue, connected, inflight, receipts, cur, attempt,
                 confirmed, before, purge, rest>>

\* "attempt === maxRetries" with the bound of the loop, as late by one
retryExhaustedLate(a) == a = ChunkRetries + 1

\* attempt === maxRetries in the catch of retryChunkOperation
retryExhausted(a) == a = ChunkRetries

\* an attempt threw: retryChunkOperation tries the chunk again, or after the
\* last attempt throws the last error, and the chunk loop records the chunk
chunkAttemptFailed ==
  /\ coord.state = "running"
  /\ pc = "done"
  /\ result.status = "error"
  /\ IF retryExhausted(coord.attempt)
     THEN chunkLoopStep([coord EXCEPT
            !.lastError = result.error,
            !.failedChunks = Append(@, [chunkIndex |-> coord.i,
                                        messageIds |-> Chunks[coord.i],
                                        error |-> result.error]),
            !.totalFailCount = @ + Len(Chunks[coord.i]),
            !.finished = @ \cup {coord.i}])
     ELSE /\ coord' = [coord EXCEPT !.lastError = result.error,
                                    !.attempt = @ + 1,
                                    !.tried[coord.i] = @ + 1]
          /\ pc' = "ensure"
          /\ result' = Pending
          /\ messages' = <<>>
          /\ UNCHANGED call
  /\ UNCHANGED <<queue, connected, inflight, receipts, cur, attempt,
                 confirmed, before, purge, rest>>

\* ---- connect ----

\* the promise callbacks: only the first resolve or reject of a promise
\* settles it
settle(c, state, error) ==
  IF c.state = "pending" THEN [c EXCEPT !.state = state, !.error = error]
  ELSE c

\* no timer is started
armTimerNever == "unset"

\* const timeout = setTimeout(() => reject(...), 10000)
armTimer == "armed"

\* clearTimeout(timeout)
clearTimeout(c) == [c EXCEPT !.timer = IF @ = "armed" THEN "cleared" ELSE @]

\* connect(connection) runs the executor of its promise: a connection string
\* without its two parts, or a WebSocket URL that does not parse, throws
\* before the timer is started ("bad_string"), with this.managementApiUrl
\* already set when it is the URL that does not parse; a client that cannot
\* be built or activated throws after it ("bad_client"); the catch rejects
connectStart(input) ==
  /\ connectCall.state = "none"
  /\ connectCall' =
       IF input = "bad_string"
       THEN [connectCall EXCEPT !.state = "rejected",
                                !.error = "Failed to setup connection",
                                !.events = <<"throw">>]
       ELSE IF input = "bad_client"
       THEN [connectCall EXCEPT !.state = "rejected",
                                !.error = "Failed to setup connection",
                                !.timer = armTimer,
                                !.events = <<"throw">>]
       ELSE [connectCall EXCEPT !.state = "pending", !.timer = armTimer,
                                !.events = <<"activate">>]
  /\ \/ managementApiUrl' = "http"
     \/ input = "bad_string" /\ managementApiUrl' = managementApiUrl
  /\ UNCHANGED <<svc, other, listing, probe, mgr, connection, edit, azure>>

\* the client was activated and reports an event
ClientEvents == {"onConnect", "onStompError", "onWebSocketError"}

\* onConnect, onStompError or onWebSocketError of the activated client: each
\* clears the timer and resolves or rejects; onConnect comes with the client
\* connected and sets this.connection
clientEvent(e) ==
  /\ connectCall.events # <<>>
  /\ connectCall.events[1] = "activate"
  /\ Len(connectCall.events) <= MaxEvents
  /\ connectCall' =
       LET c == [clearTimeout(connectCall) EXCEPT !.events = Append(@, e)]
       IN IF e = "onConnect" THEN settle(c, "resolved", "")
          ELSE IF e = "onStompError" THEN settle(c, "rejected", "STOMP error")
          ELSE settle(c, "rejected", "WebSocket connection failed")
  /\ connection' = IF e = "onConnect" THEN "connected" ELSE connection
  /\ connected' = IF e = "onConnect" THEN TRUE ELSE connected
  /\ UNCHANGED <<queue, inflight, receipts, call, pc, messages, cur, attempt,
                 confirmed, result, before, coord, purge, other, listing,
                 probe, mgr, managementApiUrl, edit, azure>>

\* the 10 s timer fires
connectTimeout ==
  /\ connectCall.timer = "armed"
  /\ connectCall' =
       settle([connectCall EXCEPT !.timer = "fired",
                                  !.events = Append(@, "timeout")],
              "rejected", "Connection timeout after 10 seconds")
  /\ UNCHANGED <<svc, other, listing, probe, mgr,
                 more>>

\* ---- getMessages and exportMessages ----

\* the get request of the management API on queue q: up to count messages
\* from the head; with "ack_requeue_false" they leave the queue, with
\* "reject_requeue_true" the broker puts them back where they were
brokerGet(q, count, ackmode) ==
  LET n == Min(count, Len(q))
  IN [messages |-> SubSeq(q, 1, n),
      queue |-> IF ackmode = "ack_requeue_false"
                THEN SubSeq(q, n + 1, Len(q)) ELSE q]

\* a read that consumes what it reads
readAckmodeConsuming == "ack_requeue_false"

\* ackmode of the get request of getMessages
readAckmode == "reject_requeue_true"

\* JSON.parse(msg.payload): the value the payload text stands for
parse(payload) == [json |-> payload]

\* messages.map((msg, index) => ({ id, ..., body })), index counted from 0
RECURSIVE toIMessages(_, _)
toIMessages(msgs, k) ==
  IF k > Len(msgs) THEN <<>>
  ELSE <<[id |-> IdAt(msgs, k), body |-> parse(msgs[k].payload)]>>
       \o toIMessages(msgs, k + 1)

\* allMessages.filter(msg => messageIdSet.has(msg.id)).map(msg => msg.body)
exported(all, idSet) ==
  LET hit == SelectSeq(all, LAMBDA m : m.id \in idSet)
  IN [i \in 1..Len(hit) |-> hit[i].body]

\* getMessages(queue) or exportMessages(queue, ids) is called
StartRead(op, ids) ==
  /\ pc = "idle"
  /\ op = "exportMessages" => ids # <<>>
  /\ call' = [op |-> op, ids |-> ids]
  /\ pc' = "read"
  /\ UNCHANGED <<queue, connected, inflight, receipts, messages, cur, attempt,
                 confirmed, result, before, coord, purge, rest>>

\* exportMessages with no id returns [] without reading
exportEmpty ==
  /\ pc = "idle"
  /\ call' = [op |-> "exportMessages", ids |-> <<>>]
  /\ pc' = "done"
  /\ result' = [Ok(0, 0) EXCEPT !.affected = <<>>]
  /\ UNCHANGED <<queue, connected, inflight, receipts, messages, cur, attempt,
                 confirmed, before, coord, purge, rest>>

\* getMessages with the default limit: the get request, then the mapping;
\* a response that is not ok throws inside the try, and the catch returns [];
\* exportMessages filters what getMessages returned.  "messages" keeps the
\* raw answer and "cur" whether the response was ok
readFetch ==
  /\ pc = "read"
  /\ \E ok \in BOOLEAN :
       LET got == brokerGet(queue["src"], ReadLimit, readAckmode)
           all == IF ok THEN toIMessages(got.messages, 1) ELSE <<>>
       IN /\ queue' = [queue EXCEPT !["src"] = IF ok THEN got.queue ELSE @]
          /\ messages' = IF ok THEN got.messages ELSE <<>>
          /\ cur' = IF ok THEN 1 ELSE 0
          /\ listing' = IF call.op = "getMessages" THEN all ELSE listing
          /\ result' = [Ok(0, 0) EXCEPT !.affected =
                          IF call.op = "getMessages" THEN all
                          ELSE exported(all, IdSet(call.ids))]
  /\ pc' = "done"
  /\ UNCHANGED <<connected, inflight, receipts, call, attempt, confirmed,
                 before, coord, purge, connectCall, other, probe, mgr,
                 more>>

\* ---- a second deleteMessage call on the same queue ----

\* a lock on the queue, held by a call from its drain to its return
queueLockedByCall == pc \in {"classify", "join"}

\* deleteMessage takes no lock on the queue before it drains it
queueLocked == FALSE

\* the second deleteMessage(src, messageId) is called; the client is connected
otherStart(messageId) ==
  /\ other.pc = "idle"
  /\ connected
  /\ other' = [other EXCEPT !.pc = "fetch", !.messageId = messageId]
  /\ UNCHANGED <<svc, connectCall, listing, probe, mgr,
                 more>>

\* its drain; "during" keeps where the first call was at that moment
otherFetch ==
  /\ other.pc = "fetch"
  /\ ~queueLocked
  /\ LET got == brokerGet(queue["src"], DrainCount, "ack_requeue_false")
     IN /\ queue' = [queue EXCEPT !["src"] = got.queue]
        /\ other' = [other EXCEPT !.pc = "classify", !.messages = got.messages,
                                  !.during = pc]
  /\ UNCHANGED <<connected, inflight, receipts, call, pc, messages, cur,
                 attempt, confirmed, result, before, coord, purge,
                 connectCall, listing, probe, mgr,
                 more>>

\* its loop and its not-found check
otherClassify ==
  /\ other.pc = "classify"
  /\ inflight' = inflight \o deleteLoop(other.messages, other.messageId, 1, connected)
  /\ other' = IF messageFound(other.messages, other.messageId)
              THEN [other EXCEPT !.pc = "join"]
              ELSE [other EXCEPT !.pc = "done", !.status = "error",
                                 !.error = "Message not found in queue"]
  /\ UNCHANGED <<queue, connected, receipts, call, pc, messages, cur, attempt,
                 confirmed, result, before, coord, purge,
                 connectCall, listing, probe, mgr,
                 more>>

\* its await Promise.all
otherJoin ==
  /\ other.pc = "join"
  /\ other' = [other EXCEPT !.pc = "done", !.status = "ok"]
  /\ UNCHANGED <<svc, connectCall, listing, probe, mgr,
                 more>>

\* the caller has the outcome of a call and the service is ready for the next
Return ==
  /\ pc = "done"
  /\ pc' = "idle"
  /\ call' = NoCall
  /\ result' = Pending
  /\ messages' = <<>>
  /\ cur' = 0
  /\ UNCHANGED <<queue, connected, inflight, receipts, attempt, confirmed,
                 before, coord, purge, rest>>

\* ---- saving an edited message ----

\* the texts the edit dialog hands over: "z" is JSON for a new body,
\* "invalid" is not JSON
EditInputs == {"z", "invalid"}

\* the line after `await service.deleteMessage(...)` is reached whatever the
\* call returned
sendReachedAlways(status) == TRUE

\* the line after `await service.deleteMessage(...)` is reached only when the
\* call did not throw
sendReached(status) == status = "ok"

\* handleSaveEdit / handleSaveEditedMessage up to the first await: the body
\* is parsed (a throw goes to the catch) and deleteMessage is called with
\* the id of the message being edited
saveEdit(id, updatedBody) ==
  /\ edit.pc = "idle"
  /\ pc = "idle"
  /\ IF updatedBody = "invalid"
     THEN /\ edit' = [edit EXCEPT !.pc = "failed", !.id = id,
                                  !.error = "parse"]
          /\ UNCHANGED <<call, pc>>
     ELSE /\ edit' = [edit EXCEPT !.pc = "deleting", !.id = id,
                                  !.body = updatedBody]
          /\ call' = [op |-> "deleteMessage", ids |-> <<id>>]
          /\ pc' = "ensure"
  /\ UNCHANGED <<queue, connected, inflight, receipts, messages, cur, attempt,
                 confirmed, result, before, coord, purge, connectCall, other,
                 listing, probe, mgr, connection, managementApiUrl, azure>>

\* deleteMessage has returned or thrown: the handler goes on to sendMessage
\* or to its catch
editDeleted ==
  /\ edit.pc = "deleting"
  /\ pc = "done"
  /\ edit' = IF sendReached(result.status)
             THEN [edit EXCEPT !.pc = "sending"]
             ELSE [edit EXCEPT !.pc = "failed", !.error = "delete"]
  /\ pc' = "idle"
  /\ UNCHANGED <<queue, connected, inflight, receipts, call, messages, cur,
                 attempt, confirmed, result, before, coord, purge, connectCall,
                 other, listing, probe, mgr, connection, managementApiUrl,
                 azure>>

\* sendMessage(queue, newBody): ensureConnected, then one publish of the
\* new body with content-type application/json and no message-id
editSend ==
  /\ edit.pc = "sending"
  /\ \/ /\ connected' = TRUE
        /\ inflight' = Append(inflight,
             Frame("src", 0, [message_id |-> "", payload |-> edit.body], <<>>))
        /\ edit' = [edit EXCEPT !.pc = "done"]
     \/ /\ ~connected
        /\ edit' = [edit EXCEPT !.pc = "failed", !.error = "send"]
        /\ UNCHANGED <<connected, inflight>>
  /\ UNCHANGED <<queue, receipts, call, pc, messages, cur, attempt, confirmed,
                 result, before, coord, purge, connectCall, other, listing,
                 probe, mgr, connection, managementApiUrl, azure>>

EditNext ==
  \/ \E id \in RequestIds, updatedBody \in EditInputs : saveEdit(id, updatedBody)
  \/ ensureConnected
  \/ Fetch
  \/ deleteClassify
  \/ joinPublishes
  \/ editDeleted
  \/ editSend
  \/ BrokerAdmit
  \/ ConnectionLost

EditSpec == Init /\ [][EditNext]_vars

\* ---- bulkDeleteMessages from start to end, undisturbed ----

\* what frames carry, in order
RECURSIVE msgsOf(_)
msgsOf(frames) ==
  IF frames = <<>> THEN <<>> ELSE <<Head(frames).msg>> \o msgsOf(Tail(frames))

\* one bulkDeleteMessages call on a list within the chunk limit, when the
\* client stays connected, the drain is answered and the broker has taken
\* every republished message before anything else happens: the queue it
\* leaves and the counts it returns
bulkDeleteOnce(q, ids) ==
  LET n == Min(DrainCount, Len(q))
      msgs == SubSeq(q, 1, n)
      s == successCount(msgs, IdSet(ids))
  IN [queue |-> SubSeq(q, n + 1, Len(q))
                  \o msgsOf(bulkDeleteLoop(msgs, IdSet(ids), 1, TRUE)),
      successCount |-> s,
      failCount |-> Len(ids) - s]

\* the chunk loop: the call is made again for each chunk in turn, each time
\* on the queue the chunk before left, and the counts are added up
RECURSIVE bulkDeleteChunks(_, _, _, _, _)
bulkDeleteChunks(q, chunks, i, totalSuccessCount, totalFailCount) ==
  IF i > Len(chunks)
  THEN [queue |-> q, successCount |-> totalSuccessCount,
        failCount |-> totalFailCount]
  ELSE LET r == bulkDeleteOnce(q, chunks[i])
       IN bulkDeleteChunks(r.queue, chunks, i + 1,
                           totalSuccessCount + r.successCount,
                           totalFailCount + r.failCount)

bulkDeleteMessages(q, ids) ==
  IF ids = <<>> THEN [queue |-> q, successCount |-> 0, failCount |-> 0]
  ELSE IF Len(ids) > ChunkLimit
  THEN bulkDeleteChunks(q, chunkArray(ids, ChunkLimit), 1, 0, 0)
  ELSE bulkDeleteOnce(q, ids)

Reverse(s) == [i \in 1..Len(s) |-> s[Len(s) + 1 - i]]

\* an id list and a permutation of it: two orders of a list longer than the
\* chunk limit, or a list within the limit and its reverse
OrderPairs ==
  {<<ids, perm>> : ids \in ChunkedIds, perm \in ChunkedIds}
  \cup {<<ids, Reverse(ids)>> :
          ids \in SeqsUpTo(RequestIds, Min(MaxIds, ChunkLimit))}

\* the same queue is given to bulkDeleteMessages with the list in one order
\* and in the other
deleteBothOrders ==
  /\ probe.fn = "bulkDeleteMessages"
  /\ ~probe.done
  /\ probe' = [probe EXCEPT
       !.done = TRUE,
       !.out = bulkDeleteMessages(probe.queue, probe.ids),
       !.outPerm = bulkDeleteMessages(probe.queue, probe.perm)]
  /\ UNCHANGED <<svc, connectCall, other, listing, mgr, more>>

OrderNext == deleteBothOrders

OrderInit ==
  /\ queue = [src |-> <<>>, tgt |-> <<>>]
  /\ connected = TRUE
  /\ inflight = <<>>
  /\ receipts = {}
  /\ call = NoCall
  /\ pc = "idle"
  /\ messages = <<>>
  /\ cur = 0
  /\ attempt = 0
  /\ confirmed = {}
  /\ result = Pending
  /\ before = queue
  /\ connectCall = NoConn
  /\ other = NoOther
  /\ listing = <<>>
  /\ probe \in {[fn |-> "bulkDeleteMessages", queue |-> q, ids |-> p[1],
                 perm |-> p[2], done |-> FALSE,
                 out |-> Pending, outPerm |-> Pending] :
                   q \in SeqsUpTo(RawMessage, MaxChunkQueue), p \in OrderPairs}
  /\ mgr = NoMgr
  /\ connection = "connected"
  /\ managementApiUrl = "http"
  /\ edit = NoEdit
  /\ azure = NoAzure
  /\ coord = NoCoord
  /\ purge = NoPurge

OrderSpec == OrderInit /\ [][OrderNext]_vars

\* ---- AzureServiceBusService: deleteMessage and moveMessage ----

AzureMessageIds == {"a", "b"}

\* the source queues: the k-th message has sequenceNumber k
AzureQueues ==
  {[k \in 1..Len(s) |->
      [messageId |-> s[k], sequenceNumber |-> k, state |-> "active"]] :
     s \in SeqsUpTo(AzureMessageIds, MaxAzureQueue)}

\* the ids a caller passes: message ids and sequence numbers
AzureRequestIds == {"a", "b", "1", "2"}

\* msg.messageId?.toString() === messageId ||
\* msg.sequenceNumber?.toString() === messageId
azureMatches(msg, messageId) ==
  msg.messageId = messageId \/ ToString(msg.sequenceNumber) = messageId

\* what moveMessage does with the matching message, in this order
moveStepsCompleteFirst == <<"complete", "send">>

moveSteps == <<"send", "complete">>

\* the indices of the first n active messages of q
RECURSIVE firstActive(_, _, _)
firstActive(q, k, n) ==
  IF k > Len(q) \/ n = 0 THEN <<>>
  ELSE IF q[k].state = "active"
  THEN <<k>> \o firstActive(q, k + 1, n - 1)
  ELSE firstActive(q, k + 1, n)

azureThrow(error) ==
  [azure EXCEPT !.pc = "done", !.status = "error", !.error = error]

\* deleteMessage or moveMessage is called on a connected service and creates
\* its peekLock receiver
azureCall(op, messageId) ==
  /\ azure.pc = "idle"
  /\ azure' = [azure EXCEPT !.pc = "receive", !.op = op, !.id = messageId]
  /\ UNCHANGED <<svc, connectCall, other, listing, probe, mgr, connection,
                 managementApiUrl, edit>>

\* receiver.receiveMessages(100, {maxWaitTimeInMs: 5000}): up to 100 active
\* messages from the head are locked and returned (fewer when the wait ends
\* first), or the request throws
azureReceiveMessages ==
  /\ azure.pc = "receive"
  /\ \/ \E n \in 0..ReceiveMax :
          LET got == firstActive(azure.queue["src"], 1, n)
          IN /\ Len(got) = n
             /\ azure' = [azure EXCEPT
                  !.pc = "loop", !.batch = got, !.i = 1,
                  !.queue["src"] =
                    [k \in 1..Len(@) |->
                       IF \E j \in 1..Len(got) : got[j] = k
                       THEN [@[k] EXCEPT !.state = "locked"] ELSE @[k]]]
     \/ azure' = azureThrow("receive failed")
  /\ UNCHANGED <<svc, connectCall, other, listing, probe, mgr, connection,
                 managementApiUrl, edit>>

\* one turn of `for (const msg of messages)`: the matching message is handed
\* to the steps of the operation; any other message is abandoned (its lock
\* is released) unless abandonMessage throws; after the last message the
\* receiver is closed and "not found" is thrown
azureLoop ==
  /\ azure.pc = "loop"
  /\ IF azure.i > Len(azure.batch)
     THEN azure' = azureThrow("not found")
     ELSE LET k == azure.batch[azure.i]
              msg == azure.queue["src"][k]
          IN IF azureMatches(msg, azure.id)
             THEN azure' = [azure EXCEPT
                    !.pc = "match",
                    !.todo = IF azure.op = "moveMessage" THEN moveSteps
                             ELSE <<"complete">>]
             ELSE \/ azure' = [azure EXCEPT
                         !.i = @ + 1,
                         !.queue["src"][k].state =
                            IF @ = "locked" THEN "active" ELSE @]
                  \/ azure' = azureThrow("abandon failed")
  /\ UNCHANGED <<svc, connectCall, other, listing, probe, mgr, connection,
                 managementApiUrl, edit>>

\* the next step on the matching message has been done and the call goes on,
\* or returns after the last one (receiver.close(); return)
azureStepDone(a) ==
  IF Len(a.todo) = 1
  THEN [a EXCEPT !.todo = <<>>, !.pc = "done", !.status = "ok"]
  ELSE [a EXCEPT !.todo = Tail(@)]

\* sender.sendMessages({body, contentType, subject, applicationProperties})
\* to the target queue, or a throw
azureSend ==
  /\ azure.pc = "match"
  /\ Head(azure.todo) = "send"
  /\ LET msg == azure.queue["src"][azure.batch[azure.i]]
     IN \/ azure' = azureStepDone([azure EXCEPT
               !.queue["tgt"] = Append(@, [msg EXCEPT !.state = "active"])])
        \/ azure' = azureThrow("send failed")
  /\ UNCHANGED <<svc, connectCall, other, listing, probe, mgr, connection,
                 managementApiUrl, edit>>

\* receiver.completeMessage(msg): the message leaves the source queue when
\* its lock is still held, and the request throws otherwise
azureComplete ==
  /\ azure.pc = "match"
  /\ Head(azure.todo) = "complete"
  /\ LET k == azure.batch[azure.i]
     IN \/ /\ azure.queue["src"][k].state = "locked"
           /\ azure' = azureStepDone([azure EXCEPT
                  !.queue["src"][k].state = "completed"])
        \/ azure' = azureThrow("complete failed")
  /\ UNCHANGED <<svc, connectCall, other, listing, probe, mgr, connection,
                 managementApiUrl, edit>>

\* the lock of a received message runs out: the broker makes it active again
azureLockExpired ==
  /\ \E k \in 1..Len(azure.queue["src"]) :
       /\ azure.queue["src"][k].state = "locked"
       /\ azure' = [azure EXCEPT !.queue["src"][k].state = "active"]
  /\ UNCHANGED <<svc, connectCall, other, listing, probe, mgr, connection,
                 managementApiUrl, edit>>

AzureNext ==
  \/ \E op \in {"deleteMessage", "moveMessage"}, id \in AzureRequestIds :
       azureCall(op, id)
  \/ azureReceiveMessages
  \/ azureLoop
  \/ azureSend
  \/ azureComplete
  \/ azureLockExpired

AzureInit ==
  /\ queue = [src |-> <<>>, tgt |-> <<>>]
  /\ connected = TRUE
  /\ inflight = <<>>
  /\ receipts = {}
  /\ call = NoCall
  /\ pc = "idle"
  /\ messages = <<>>
  /\ cur = 0
  /\ attempt = 0
  /\ confirmed = {}
  /\ result = Pending
  /\ before = queue
  /\ connectCall = NoConn
  /\ other = NoOther
  /\ listing = <<>>
  /\ probe = NoProbe
  /\ mgr = NoMgr
  /\ connection = "connected"
  /\ managementApiUrl = "http"
  /\ edit = NoEdit
  /\ azure \in {[NoAzure EXCEPT !.queue["src"] = q] : q \in AzureQueues}
  /\ coord = NoCoord
  /\ purge = NoPurge

AzureSpec == AzureInit /\ [][AzureNext]_vars

\* ---- the entry of the queue operations ----

\* the queue operations of the service
QueueOps ==
  {"getQueues", "getMessages", "sendMessage", "deleteMessage", "moveMessage",
   "bulkDeleteMessages", "bulkMoveMessages", "purgeQueue", "importMessages",
   "exportMessages"}

\* the operations that start with `await this.ensureConnected()` once their
\* guard has passed; the others go straight to the management API
StompOps ==
  {"sendMessage", "deleteMessage", "moveMessage", "bulkDeleteMessages",
   "bulkMoveMessages", "importMessages"}

\* the guard at the top of each operation does not throw: sendMessage has
\* none, importMessages looks at this.connection only, the others at
\* this.connection and this.managementApiUrl
guardPasses(op) ==
  CASE op = "sendMessage" -> TRUE
    [] op = "importMessages" -> connection # "null"
    [] OTHER -> connection # "null" /\ managementApiUrl # ""

\* an operation is called while no other call is running: its guard and, for
\* the operations that publish, the checks of ensureConnected run before the
\* call waits for anything
invoke(op) ==
  /\ pc \in {"idle", "done"}
  /\ call' = [op |-> op, ids |-> <<>>]
  /\ IF ~guardPasses(op)
     THEN /\ pc' = "done"
          /\ result' = Thrown("Not connected to RabbitMQ")
     ELSE IF op \notin StompOps \/ connected
     THEN /\ pc' = "fetch"
          /\ result' = Pending
     ELSE IF connection = "null"
     THEN /\ pc' = "done"
          /\ result' = Thrown("No connection configuration available")
     ELSE /\ pc' = "ensure"
          /\ result' = Pending
  /\ UNCHANGED <<queue, connected, inflight, receipts, messages, cur, attempt,
                 confirmed, before, coord, purge, rest>>

\* the rest of the operation runs (its steps are modelled with the
\* operations themselves) and the call returns or throws
bodyRuns ==
  /\ pc = "fetch"
  /\ pc' = "done"
  /\ \/ result' = Ok(0, 0)
     \/ result' = Thrown("Failed to fetch messages")
  /\ UNCHANGED <<queue, connected, inflight, receipts, call, messages, cur,
                 attempt, confirmed, before, coord, purge, rest>>

\* disconnect(): the client is deactivated and dropped, this.connection is
\* set to null (this.managementApiUrl keeps its value)
disconnect ==
  /\ pc \in {"idle", "done"}
  /\ connectCall.state \in {"resolved", "rejected"}
  /\ connected' = FALSE
  /\ connection' = "null"
  /\ connectCall' = NoConn
  /\ UNCHANGED <<queue, inflight, receipts, call, pc, messages, cur, attempt,
                 confirmed, result, before, coord, purge, other, listing,
                 probe, mgr, managementApiUrl, edit, azure>>

GuardNext ==
  \/ \E input \in {"ok", "bad_string", "bad_client"} : connectStart(input)
  \/ \E e \in ClientEvents : clientEvent(e)
  \/ connectTimeout
  \/ disconnect
  \/ \E op \in QueueOps : invoke(op)
  \/ ensureConnected
  \/ bodyRuns
  \/ ConnectionLost

\* ---- importMessages ----

\* the bodies a caller imports; "circular" stands for a value JSON.stringify
\* throws on (an object that contains itself, a BigInt)
Bodies == {"x", "y", "circular"}

serializable(body) == body # "circular"

StartImport(bodies) ==
  /\ pc = "idle"
  /\ bodies # <<>>
  /\ call' = [op |-> "importMessages", ids |-> <<>>, bodies |-> bodies]
  /\ pc' = "import_ensure"
  /\ UNCHANGED <<queue, connected, inflight, receipts, messages, cur, attempt,
                 confirmed, result, before, coord, purge, rest>>

\* messages.length === 0
importEmpty ==
  /\ pc = "idle"
  /\ call' = [op |-> "importMessages", ids |-> <<>>, bodies |-> <<>>]
  /\ pc' = "done"
  /\ result' = Ok(0, 0)
  /\ UNCHANGED <<queue, connected, inflight, receipts, messages, cur, attempt,
                 confirmed, before, coord, purge, rest>>

\* the executor of the promise of one body: JSON.stringify throws for a body
\* that cannot be serialized, which rejects the promise; otherwise the body
\* is published and successCount++
RECURSIVE importLoop(_, _)
importLoop(bodies, k) ==
  IF k > Len(bodies) THEN <<>>
  ELSE (IF serializable(bodies[k])
        THEN <<Frame("src", k, [message_id |-> "", payload |-> bodies[k]], <<>>)>>
        ELSE <<>>)
       \o importLoop(bodies, k + 1)

\* await this.ensureConnected() and, in the same turn, the loop over the
\* bodies: the client is connected when the loop runs
importPublish ==
  /\ pc = "import_ensure"
  /\ \/ /\ connected' = TRUE
        /\ inflight' = inflight \o importLoop(call.bodies, 1)
        /\ cur' = Len(importLoop(call.bodies, 1))
        /\ pc' = "import_join"
        /\ UNCHANGED result
     \/ /\ ~connected
        /\ pc' = "done"
        /\ result' = Thrown("Failed to reconnect to RabbitMQ")
        /\ UNCHANGED <<connected, inflight, cur>>
  /\ UNCHANGED <<queue, receipts, call, messages, attempt, confirmed, before,
                 coord, purge, rest>>

\* await Promise.all(sendPromises): rejects with the error of a rejected
\* promise, and the catch rethrows it; otherwise the counts are returned
importJoin ==
  /\ pc = "import_join"
  /\ pc' = "done"
  /\ result' = IF \E k \in 1..Len(call.bodies) : ~serializable(call.bodies[k])
               THEN Thrown("Converting circular structure to JSON")
               ELSE Ok(cur, Len(call.bodies) - cur)
  /\ UNCHANGED <<queue, connected, inflight, receipts, call, messages, cur,
                 attempt, confirmed, before, coord, purge, rest>>

\* ---- the headers of a republished message ----

\* header names a stored message may carry in properties.headers
HeaderNames ==
  {"destination", "Receipt", "subscription", "Content-Type", "message-id",
   "content-length", "x-trace"}

\* a header whose value is null or undefined
Null == "NULL"

HeaderValues == {"v", Null}

\* String.prototype.toLowerCase on the names above
toLowerCase(k) ==
  CASE k = "Receipt" -> "receipt"
    [] k = "Content-Type" -> "content-type"
    [] OTHER -> k

\* the header maps: a value for some of the names
HeaderMaps == UNION {[S -> HeaderValues] : S \in SUBSET HeaderNames}

\* the names filterRepublishHeaders refuses to copy
disallowed ==
  {"content-length", "content-type", "message-id", "receipt", "subscription",
   "destination"}

\* the names the filter written inline in the other operations refuses
inlineDisallowed == {"content-length", "content-type", "message-id"}

\* (String(v) leaves the values alone: the values here are strings)
filterRepublishHeaders(headers) ==
  LET kept == {k \in DOMAIN headers :
                 toLowerCase(k) \notin disallowed /\ headers[k] # Null}
  IN  [k \in kept |-> headers[k]]

\* filteredHeaders of deleteMessage, bulkDeleteMessages and bulkMoveMessages
filteredHeaders(headers) ==
  LET kept == {k \in DOMAIN headers : toLowerCase(k) \notin inlineDisallowed}
  IN  [k \in kept |-> headers[k]]

RepublishOps ==
  {"deleteMessage", "moveMessage", "bulkDeleteMessages", "bulkMoveMessages"}

\* the original headers an operation copies onto the frame it publishes
copiedHeaders(op, headers) ==
  IF op = "moveMessage" THEN filterRepublishHeaders(headers)
  ELSE filteredHeaders(headers)

\* an operation builds the headers of the message it republishes
republish(op) ==
  /\ probe.fn = "headers"
  /\ probe.op = "none"
  /\ probe' = [probe EXCEPT !.op = op,
                            !.out = copiedHeaders(op, probe.headers)]
  /\ UNCHANGED <<svc, connectCall, other, listing, mgr,
                 more>>

HeaderNext == \E op \in RepublishOps : republish(op)

HeaderInit ==
  /\ queue = [src |-> <<>>, tgt |-> <<>>]
  /\ connected = TRUE
  /\ inflight = <<>>
  /\ receipts = {}
  /\ call = NoCall
  /\ pc = "idle"
  /\ messages = <<>>
  /\ cur = 0
  /\ attempt = 0
  /\ confirmed = {}
  /\ result = Pending
  /\ before = queue
  /\ connectCall = NoConn
  /\ other = NoOther
  /\ listing = <<>>
  /\ probe \in {[fn |-> "headers", headers |-> h, op |-> "none", out |-> <<>>] :
                   h \in HeaderMaps}
  /\ mgr = NoMgr
  /\ connection = "connected"
  /\ managementApiUrl = "http"
  /\ edit = NoEdit
  /\ azure = NoAzure
  /\ coord = NoCoord
  /\ purge = NoPurge

HeaderSpec == HeaderInit /\ [][HeaderNext]_vars

\* ---- generateInternalId ----

\* the payloads of the messages generateInternalId is asked about: a string,
\* given by its char codes, or the empty object
IdPayloads ==
  {[type |-> "string", codes |-> c] :
     c \in {<<>>, <<120>>, <<121>>, <<120, 121>>,
            <<255, 255, 255, 255, 255, 255, 255>>}}
  \cup {[type |-> "object", codes |-> <<>>]}

\* JSON.stringify of the empty object: the char codes of {}
stringify(p) == <<123, 125>>

\* an unsigned 32-bit number, as two halves of 16 bits
Zero32 == [hi |-> 0, lo |-> 0]

\* (hash * 31 + code) >>> 0
hashStep(hash, code) ==
  LET lo == hash.lo * 31 + code
  IN  [lo |-> lo % 65536, hi |-> (hash.hi * 31 + lo \div 65536) % 65536]

RECURSIVE hashFrom(_, _, _)
hashFrom(payload, i, hash) ==
  IF i > Len(payload) THEN hash
  ELSE hashFrom(payload, i + 1, hashStep(hash, payload[i]))

HexDigit(d) ==
  IF d < 10 THEN ToString(d) ELSE <<"a", "b", "c", "d", "e", "f">>[d - 9]

RECURSIVE Hex(_)
Hex(n) == IF n < 16 THEN HexDigit(n) ELSE Hex(n \div 16) \o HexDigit(n % 16)

\* Number.prototype.toString(16) of an unsigned 32-bit number
toString16(hash) ==
  IF hash.hi = 0 THEN Hex(hash.lo)
  ELSE Hex(hash.hi) \o HexDigit(hash.lo \div 4096)
         \o HexDigit((hash.lo \div 256) % 16)
         \o HexDigit((hash.lo \div 16) % 16) \o HexDigit(hash.lo % 16)

\* an id that also depends on how often the function was called before
generateInternalIdCounted(msg, index) ==
  LET base == msg.message_id
      payload == IF msg.payload.type = "string" THEN msg.payload.codes
                 ELSE stringify(msg.payload)
      hash == hashFrom(payload, 1, Zero32)
  IN  base \o "#" \o toString16(hash) \o ":" \o ToString(index + Len(probe.ids))

generateInternalId(msg, index) ==
  LET base == msg.message_id
      payload == IF msg.payload.type = "string" THEN msg.payload.codes
                 ELSE stringify(msg.payload)
      hash == hashFrom(payload, 1, Zero32)
  IN  base \o "#" \o toString16(hash) \o ":" \o ToString(index)

\* one more call of generateInternalId on the same message and position
generateId ==
  /\ probe.fn = "generateInternalId"
  /\ Len(probe.ids) < MaxCalls
  /\ probe' = [probe EXCEPT
       !.ids = Append(@, generateInternalId(probe.msg, probe.index))]
  /\ UNCHANGED <<svc, connectCall, other, listing, mgr,
                 more>>

IdNext == generateId

IdInit ==
  /\ queue = [src |-> <<>>, tgt |-> <<>>]
  /\ connected = TRUE
  /\ inflight = <<>>
  /\ receipts = {}
  /\ call = NoCall
  /\ pc = "idle"
  /\ messages = <<>>
  /\ cur = 0
  /\ attempt = 0
  /\ confirmed = {}
  /\ result = Pending
  /\ before = queue
  /\ connectCall = NoConn
  /\ other = NoOther
  /\ listing = <<>>
  /\ probe \in {[fn |-> "generateInternalId",
                 msg |-> [message_id |-> m, payload |-> p],
                 index |-> i, ids |-> <<>>] :
                   m \in {"", "a"}, p \in IdPayloads, i \in 0..MaxIndex}
  /\ mgr = NoMgr
  /\ connection = "connected"
  /\ managementApiUrl = "http"
  /\ edit = NoEdit
  /\ azure = NoAzure
  /\ coord = NoCoord
  /\ purge = NoPurge

IdSpec == IdInit /\ [][IdNext]_vars

\* ---- ServiceBusManager ----

BrokerTypes == {"rabbitmq", "azure-service-bus", "msmq", "activemq", "kafka"}

\* the types addConnection has a service class for
supported(type) == type \in {"rabbitmq", "azure-service-bus"}

hasConnection(connectionId) == connectionId \in DOMAIN mgr.services

\* Map.set and Map.delete
mapSet(map, key, value) ==
  [k \in DOMAIN map \cup {key} |-> IF k = key THEN value ELSE map[k]]

mapDelete(map, key) == [k \in DOMAIN map \ {key} |-> map[k]]

\* the line after `await service.connect(connection)` is reached whatever
\* the outcome of connect was
setReachedAlways(outcome) == TRUE

\* the line after `await service.connect(connection)` is reached only when
\* connect resolved
setReached(outcome) == outcome = "ok"

\* addConnection up to its await: the switch on connection.type throws for a
\* type without a service class, and creates the service otherwise
addConnection(id, type) ==
  /\ mgr.created < MaxServices
  /\ IF supported(type)
     THEN mgr' = [mgr EXCEPT
            !.created = @ + 1,
            !.adds = @ \cup {[id |-> id, service |-> mgr.created + 1]},
            !.event = [op |-> "addConnection", id |-> id,
                       outcome |-> "connecting"]]
     ELSE mgr' = [mgr EXCEPT
            !.event = [op |-> "addConnection", id |-> id,
                       outcome |-> "unsupported"]]
  /\ UNCHANGED <<svc, connectCall, other, listing, probe,
                 more>>

\* service.connect() settles and addConnection goes on from its await
addConnected(a, outcome) ==
  /\ a \in mgr.adds
  /\ mgr' = [mgr EXCEPT
       !.adds = @ \ {a},
       !.open = IF outcome = "ok" THEN @ \cup {a.service} ELSE @,
       !.services = IF setReached(outcome) THEN mapSet(@, a.id, a.service)
                    ELSE @,
       !.last = IF outcome = "ok" THEN [@ EXCEPT ![a.id] = "added"] ELSE @,
       !.event = [op |-> "addConnection", id |-> a.id,
                  outcome |-> IF outcome = "ok" THEN "added"
                              ELSE "connect_failed"]]
  /\ UNCHANGED <<svc, connectCall, other, listing, probe,
                 more>>

\* removeConnection up to its await: it looks the service up and returns at
\* once when there is none
removeConnection(id) ==
  /\ IF hasConnection(id)
     THEN mgr' = [mgr EXCEPT
            !.removes = @ \cup {[id |-> id, service |-> mgr.services[id]]},
            !.event = [op |-> "removeConnection", id |-> id,
                       outcome |-> "disconnecting"]]
     ELSE mgr' = [mgr EXCEPT
            !.last = [@ EXCEPT ![id] = "removed"],
            !.event = [op |-> "removeConnection", id |-> id,
                       outcome |-> "absent"]]
  /\ UNCHANGED <<svc, connectCall, other, listing, probe,
                 more>>

\* service.disconnect() settles and removeConnection goes on from its await
removeDisconnected(r, outcome) ==
  /\ r \in mgr.removes
  /\ IF outcome = "ok"
     THEN mgr' = [mgr EXCEPT
            !.removes = @ \ {r},
            !.open = @ \ {r.service},
            !.services = mapDelete(@, r.id),
            !.last = [@ EXCEPT ![r.id] = "removed"],
            !.event = [op |-> "removeConnection", id |-> r.id,
                       outcome |-> "removed"]]
     ELSE mgr' = [mgr EXCEPT
            !.removes = @ \ {r},
            !.event = [op |-> "removeConnection", id |-> r.id,
                       outcome |-> "disconnect_failed"]]
  /\ UNCHANGED <<svc, connectCall, other, listing, probe,
                 more>>

ManagerNext ==
  \/ \E id \in ConnIds, type \in BrokerTypes : addConnection(id, type)
  \/ \E a \in mgr.adds, outcome \in {"ok", "failed"} : addConnected(a, outcome)
  \/ \E id \in ConnIds : removeConnection(id)
  \/ \E r \in mgr.removes, outcome \in {"ok", "failed"} :
       removeDisconnected(r, outcome)

ManagerInit ==
  /\ queue = [src |-> <<>>, tgt |-> <<>>]
  /\ connected = TRUE
  /\ inflight = <<>>
  /\ receipts = {}
  /\ call = NoCall
  /\ pc = "idle"
  /\ messages = <<>>
  /\ cur = 0
  /\ attempt = 0
  /\ confirmed = {}
  /\ result = Pending
  /\ before = queue
  /\ connectCall = NoConn
  /\ other = NoOther
  /\ listing = <<>>
  /\ probe = NoProbe
  /\ mgr = NoMgr
  /\ connection = "connected"
  /\ managementApiUrl = "http"
  /\ edit = NoEdit
  /\ azure = NoAzure
  /\ coord = NoCoord
  /\ purge = NoPurge

ManagerSpec == ManagerInit /\ [][ManagerNext]_vars

\* ---- purgeQueue ----

\* the purge counts are kept up to this number (a producer that never stops
\* would make them grow without end)
CountCap == MaxQueue + 2

Count(n) == Min(n, CountCap)

\* purgeQueue of the RabbitMQ service ("rabbit") or of the Azure Service Bus
\* service ("azure") is called on the source queue
StartPurge(kind) ==
  /\ pc = "idle"
  /\ purge.pc = "idle"
  /\ purge' = [purge EXCEPT !.kind = kind,
                            !.pc = IF kind = "rabbit" THEN "info" ELSE "receive"]
  /\ UNCHANGED <<queue, connected, inflight, receipts, call, pc, messages,
                 cur, attempt, confirmed, result, before, coord, rest>>

\* RabbitMQ: GET /api/queues/%2F/<queue>; messageCount is the "messages" of
\* the answer when the response is ok, and stays 0 when it is not
purgeInfo ==
  /\ purge.pc = "info"
  /\ \E ok \in BOOLEAN :
       purge' = [purge EXCEPT
                   !.messageCount = IF ok THEN Len(queue["src"]) ELSE 0,
                   !.pc = "delete"]
  /\ UNCHANGED <<queue, connected, inflight, receipts, call, pc, messages,
                 cur, attempt, confirmed, result, before, coord, rest>>

\* RabbitMQ: DELETE .../contents empties the queue, and the call returns the
\* count read before; a response that is not ok makes the call throw
purgeDelete ==
  /\ purge.pc = "delete"
  /\ \/ /\ queue' = [queue EXCEPT !["src"] = <<>>]
        /\ purge' = [purge EXCEPT !.removed = Count(Len(queue["src"])),
                                  !.pc = "done", !.status = "ok",
                                  !.successCount = purge.messageCount]
     \/ /\ purge' = [purge EXCEPT !.pc = "done", !.status = "error",
                                  !.error = "Failed to purge queue"]
        /\ UNCHANGED queue
  /\ UNCHANGED <<connected, inflight, receipts, call, pc, messages, cur,
                 attempt, confirmed, result, before, coord, rest>>

\* Azure: one turn of the while (true) loop with a receiveAndDelete receiver:
\* receiveMessages takes up to batchSize messages off the queue; an empty
\* batch ends the loop and the call returns totalPurged; an error of the
\* receiver makes the call throw
azureReceive ==
  /\ purge.pc = "receive"
  /\ \/ LET n == Min(PurgeBatch, Len(queue["src"]))
        IN /\ queue' = [queue EXCEPT !["src"] = SubSeq(@, n + 1, Len(@))]
           /\ purge' = IF n = 0
                       THEN [purge EXCEPT !.pc = "done", !.status = "ok",
                                          !.successCount = purge.totalPurged]
                       ELSE [purge EXCEPT
                               !.totalPurged = Count(@ + n),
                               !.removed = Count(@ + n)]
     \/ /\ purge' = [purge EXCEPT !.pc = "done", !.status = "error",
                                  !.error = "Failed to purge queue"]
        /\ UNCHANGED queue
  /\ UNCHANGED <<connected, inflight, receipts, call, pc, messages, cur,
                 attempt, confirmed, result, before, coord, rest>>

\* another client of the broker sends a message to the queue being purged
Produce ==
  /\ purge.pc \in {"info", "delete", "receive"}
  /\ Len(queue["src"]) < MaxQueue
  /\ \E m \in RawMessage : queue' = [queue EXCEPT !["src"] = Append(@, m)]
  /\ purge' = [purge EXCEPT !.produced = TRUE]
  /\ UNCHANGED <<connected, inflight, receipts, call, pc, messages, cur,
                 attempt, confirmed, result, before, coord, rest>>

\* the process is halted in the middle of a call
Halt ==
  /\ pc \notin {"idle", "done", "halted"}
  /\ pc' = "halted"
  /\ UNCHANGED <<queue, connected, inflight, receipts, call, messages, cur,
                 attempt, confirmed, result, before, coord, purge, rest>>

Next ==
  \/ \E id \in RequestIds : StartCall("deleteMessage", <<id>>)
  \/ \E id \in RequestIds : StartCall("moveMessage", <<id>>)
  \/ \E ids \in SeqsUpTo(RequestIds, Min(MaxIds, ChunkLimit)) \ {<<>>} :
       StartCall("bulkDeleteMessages", ids)
  \/ \E ids \in SeqsUpTo(RequestIds, Min(MaxIds, ChunkLimit)) \ {<<>>} :
       StartCall("bulkMoveMessages", ids)
  \/ bulkEmpty("bulkDeleteMessages")
  \/ bulkEmpty("bulkMoveMessages")
  \/ ensureConnected
  \/ Fetch
  \/ deleteClassify
  \/ bulkDeleteClassify
  \/ bulkMoveClassify
  \/ joinPublishes
  \/ moveClassify
  \/ pwrEnter
  \/ pwrSend
  \/ pwrReceipt
  \/ pwrTimeout
  \/ BrokerAdmit
  \/ ConnectionLost
  \/ Halt

Spec == Init /\ [][Next]_vars

\* the calls of moveMessage alone
MoveNext ==
  \/ \E id \in RequestIds : StartCall("moveMessage", <<id>>)
  \/ ensureConnected
  \/ Fetch
  \/ moveClassify
  \/ pwrEnter
  \/ pwrSend
  \/ pwrReceipt
  \/ pwrTimeout
  \/ BrokerAdmit
  \/ ConnectionLost
  \/ Halt

MoveSpec == Init /\ [][MoveNext]_vars

\* the bulk calls with more ids than the chunk limit
ChunkNext ==
  \/ \E ids \in ChunkedIds : StartChunked("bulkDeleteMessages", ids)
  \/ \E ids \in ChunkedIds : StartChunked("bulkMoveMessages", ids)
  \/ ensureConnected
  \/ Fetch
  \/ bulkDeleteClassify
  \/ bulkMoveClassify
  \/ joinPublishes
  \/ chunkSucceeded
  \/ chunkAttemptFailed
  \/ BrokerAdmit
  \/ ConnectionLost

\* the service before a chunked call
ChunkInit ==
  /\ queue \in {[src |-> s, tgt |-> <<>>] :
                  s \in SeqsUpTo(RawMessage, MaxChunkQueue)}
  /\ connected = TRUE
  /\ inflight = <<>>
  /\ receipts = {}
  /\ call = NoCall
  /\ pc = "idle"
  /\ messages = <<>>
  /\ cur = 0
  /\ attempt = 0
  /\ confirmed = {}
  /\ result = Pending
  /\ before = queue
  /\ connectCall = NoConn
  /\ other = NoOther
  /\ listing = <<>>
  /\ probe = NoProbe
  /\ mgr = NoMgr
  /\ connection = "connected"
  /\ managementApiUrl = "http"
  /\ edit = NoEdit
  /\ azure = NoAzure
  /\ coord = NoCoord
  /\ purge = NoPurge

ChunkSpec == ChunkInit /\ [][ChunkNext]_vars

\* a caller lists the queue once and then deletes by id, call after call
SessionNext ==
  \/ (listing = <<>> /\ StartRead("getMessages", <<>>))
  \/ readFetch
  \/ (listing # <<>> /\ \E id \in RequestIds : StartCall("deleteMessage", <<id>>))
  \/ ensureConnected
  \/ Fetch
  \/ deleteClassify
  \/ joinPublishes
  \/ BrokerAdmit
  \/ Return

\* a queue short enough for one getMessages call to list it whole
SessionInit ==
  /\ queue \in {[src |-> s, tgt |-> <<>>] : s \in SeqsUpTo(RawMessage, ReadLimit)}
  /\ connected = TRUE
  /\ inflight = <<>>
  /\ receipts = {}
  /\ call = NoCall
  /\ pc = "idle"
  /\ messages = <<>>
  /\ cur = 0
  /\ attempt = 0
  /\ confirmed = {}
  /\ result = Pending
  /\ before = queue
  /\ connectCall = NoConn
  /\ other = NoOther
  /\ listing = <<>>
  /\ probe = NoProbe
  /\ mgr = NoMgr
  /\ connection = "connected"
  /\ managementApiUrl = "http"
  /\ edit = NoEdit
  /\ azure = NoAzure
  /\ coord = NoCoord
  /\ purge = NoPurge

SessionSpec == SessionInit /\ [][SessionNext]_vars

\* two deleteMessage calls on the same queue
TwoCallsNext ==
  \/ \E id \in RequestIds : StartCall("deleteMessage", <<id>>)
  \/ ensureConnected
  \/ Fetch
  \/ deleteClassify
  \/ joinPublishes
  \/ \E id \in RequestIds : otherStart(id)
  \/ otherFetch
  \/ otherClassify
  \/ otherJoin
  \/ BrokerAdmit

TwoCallsSpec == Init /\ [][TwoCallsNext]_vars

\* a connect() call; a timer that was started and not cleared fires
ConnectNext ==
  \/ \E input \in {"ok", "bad_string", "bad_client"} : connectStart(input)
  \/ \E e \in ClientEvents : clientEvent(e)
  \/ connectTimeout

\* a service that has not been connected
ConnectInit ==
  /\ queue = [src |-> <<>>, tgt |-> <<>>]
  /\ connected = FALSE
  /\ inflight = <<>>
  /\ receipts = {}
  /\ call = NoCall
  /\ pc = "idle"
  /\ messages = <<>>
  /\ cur = 0
  /\ attempt = 0
  /\ confirmed = {}
  /\ result = Pending
  /\ before = queue
  /\ coord = NoCoord
  /\ purge = NoPurge
  /\ connectCall = NoConn
  /\ other = NoOther
  /\ listing = <<>>
  /\ probe = NoProbe
  /\ mgr = NoMgr
  /\ connection = "null"
  /\ managementApiUrl = ""
  /\ edit = NoEdit
  /\ azure = NoAzure

ConnectSpec == ConnectInit /\ [][ConnectNext]_vars /\ WF_vars(connectTimeout)

\* a service from its construction on: connect(), disconnect() and calls of
\* the queue operations in any order
GuardSpec == ConnectInit /\ [][GuardNext]_vars

\* the read calls
ReadNext ==
  \/ StartRead("getMessages", <<>>)
  \/ \E ids \in SeqsUpTo(RequestIds, MaxIds) : StartRead("exportMessages", ids)
  \/ exportEmpty
  \/ readFetch

ReadSpec == Init /\ [][ReadNext]_vars

\* the calls of importMessages
ImportNext ==
  \/ \E bodies \in SeqsUpTo(Bodies, MaxBodies) : StartImport(bodies)
  \/ importEmpty
  \/ importPublish
  \/ importJoin
  \/ BrokerAdmit
  \/ ConnectionLost

ImportSpec == Init /\ [][ImportNext]_vars

\* the purge calls, with another producer on the queue
PurgeNext ==
  \/ StartPurge("rabbit")
  \/ StartPurge("azure")
  \/ purgeInfo
  \/ purgeDelete
  \/ azureReceive
  \/ Produce

\* every request of the purge is answered, and each turn of the loop follows
\* the one before
PurgeSpec ==
  /\ Init
  /\ [][PurgeNext]_vars
  /\ WF_vars(purgeInfo)
  /\ WF_vars(purgeDelete)
  /\ WF_vars(azureReceive)

\* chunkArray alone: an array and a chunk size, then the call
ArrayInit ==
  /\ \E array \in SeqsUpTo({"a", "b"}, MaxArray), chunkSize \in 1..MaxChunkSize :
       coord = [NoCoord EXCEPT !.ids = array, !.chunkSize = chunkSize]
  /\ queue = [src |-> <<>>, tgt |-> <<>>]
  /\ connected = TRUE
  /\ inflight = <<>>
  /\ receipts = {}
  /\ call = NoCall
  /\ pc = "idle"
  /\ messages = <<>>
  /\ cur = 0
  /\ attempt = 0
  /\ confirmed = {}
  /\ result = Pending
  /\ before = queue
  /\ connectCall = NoConn
  /\ other = NoOther
  /\ listing = <<>>
  /\ probe = NoProbe
  /\ mgr = NoMgr
  /\ connection = "connected"
  /\ managementApiUrl = "http"
  /\ edit = NoEdit
  /\ azure = NoAzure
  /\ purge = NoPurge

chunkArrayCall ==
  /\ coord.state = "none"
  /\ coord' = [coord EXCEPT !.chunks = chunkArray(coord.ids, coord.chunkSize),
                            !.state = "chunked"]
  /\ UNCHANGED <<queue, connected, inflight, receipts, call, pc, messages,
                 cur, attempt, confirmed, result, before, purge, rest>>

ArrayNext == chunkArrayCall

ArraySpec == ArrayInit /\ [][ArrayNext]_vars

TypeOK ==
  /\ connected \in BOOLEAN
  /\ pc \in {"idle", "ensure", "fetch", "classify", "join", "pwr_enter",
             "pwr_send", "pwr_wait", "done", "halted", "import_ensure",
             "import_join", "read", "read_map"}
  /\ attempt \in 0..PublishRetries
  /\ result.status \in {"pending", "ok", "error"}

\* ---- what the properties are stated about ----

SeqToBag(s) ==
  [x \in {s[i] : i \in DOMAIN s} |-> Cardinality({i \in DOMAIN s : s[i] = x})]

\* the bag of payloads of a sequence of raw messages
BodiesOf(s) ==
  [b \in {s[i].payload : i \in DOMAIN s} |->
     Cardinality({i \in DOMAIN s : s[i].payload = b})]

\* the drained messages at the batch indices S, in batch order
BatchSeq(S) ==
  LET ix == SelectSeq([k \in 1..Len(messages) |-> k], LAMBDA k : k \in S)
  IN [i \in 1..Len(ix) |-> messages[ix[i]]]

BatchBag(S) == SeqToBag(BatchSeq(S))

\* the messages of the frames on their way to queue q
Arriving(q) ==
  LET fs == SelectSeq(inflight, LAMBDA f : f.destination = q)
  IN [i \in 1..Len(fs) |-> fs[i].msg]

\* what queue q holds once the broker has processed every frame already sent
Holding(q) == queue[q] \o Arriving(q)

Batch == 1..Len(messages)
TargetIdx == {k \in Batch : IdAt(messages, k) \in IdSet(call.ids)}
KeepIdx == Batch \ TargetIdx
Undrained == SubSeq(before["src"], Len(messages) + 1, Len(before["src"]))

Mutations == {"deleteMessage", "moveMessage", "bulkDeleteMessages",
              "bulkMoveMessages"}
Deletes == {"deleteMessage", "bulkDeleteMessages"}
Returned == pc = "done"
Succeeded == pc = "done" /\ result.status = "ok"

\* the bodies discarded because they were explicit delete targets
DiscardedBodies ==
  IF call.op \in Deletes THEN BodiesOf(BatchSeq(TargetIdx)) ELSE EmptyBag

\* C1: after any single deleteMessage, moveMessage, bulkDeleteMessages or
\* bulkMoveMessages, whatever it returned, the bodies in the source queue, the
\* target queue and the discarded delete targets are, as a multiset, the
\* bodies that were in the two queues before.
C1_NoLoss ==
  (Returned /\ call.op \in Mutations) =>
    BodiesOf(Holding("src")) (+) BodiesOf(Holding("tgt")) (+) DiscardedBodies
      = BodiesOf(before["src"]) (+) BodiesOf(before["tgt"])

\* C2: after deleteMessage returned success on a batch in which exactly one
\* message has the id, the queue holds exactly the other drained messages,
\* each once, plus the messages that were not drained, and nothing was
\* published to another queue.
C2_DeleteExact ==
  (Succeeded /\ call.op = "deleteMessage" /\ Cardinality(TargetIdx) = 1) =>
    /\ SeqToBag(Holding("src")) = BatchBag(KeepIdx) (+) SeqToBag(Undrained)
    /\ Holding("tgt") = before["tgt"]

NotFoundError == result.status = "error" /\ result.error = "Message not found in queue"

\* C3: when deleteMessage fails with not-found, every drained message has
\* been published back to the source queue before the error is returned.
C3_DeleteNotFoundRequeues ==
  (Returned /\ call.op = "deleteMessage" /\ NotFoundError) =>
    SeqToBag(Holding("src")) = SeqToBag(before["src"])

\* C4: when moveMessage fails with not-found, every drained message has been
\* published back to the source queue before the error is returned.
C4_MoveNotFoundRequeues ==
  (Returned /\ call.op = "moveMessage" /\ NotFoundError) =>
    SeqToBag(Holding("src")) = SeqToBag(before["src"])

\* C5: none of the four operations returns success while a drained keep
\* message (one whose id was not asked for) has not been published back to
\* the source queue.
C5_NoSuccessWithUnpublishedKeep ==
  (Succeeded /\ call.op \in Mutations) =>
    BatchBag(KeepIdx) \sqsubseteq SeqToBag(Holding("src"))

\* the drained messages that no queue holds and that were not delete targets
Missing ==
  (SeqToBag([i \in 1..Len(messages) |-> messages[i]]) (-)
     (IF call.op \in Deletes THEN BatchBag(TargetIdx) ELSE EmptyBag))
  (-) ((SeqToBag(Holding("src")) (-) SeqToBag(Undrained))
       (+) SeqToBag(Holding("tgt")))

PublishError ==
  result.status = "error" /\
  result.error \in {"Receipt timeout", "STOMP client not connected",
                    "There is no underlying STOMP connection"}

\* C6: when a keep republish fails in moveMessage, the error returned carries
\* the exact list of the drained messages now missing from the queues.
C6_ErrorListsMissing ==
  (Returned /\ call.op = "moveMessage" /\ PublishError
     /\ PubDest(cur) = "src") =>
    result.affected = Missing

\* a frame for the target queue has been sent
TargetIssued ==
  Len(Holding("tgt")) > Len(before["tgt"])

C8_TargetSurvivesHalt ==
  (/\ pc = "halted" /\ call.op = "moveMessage"
   /\ TargetIdx # {}
   /\ cur = Len(publishOrder(messages, call.ids[1]))
   /\ \A i \in 1..Len(nonTargets(messages, call.ids[1])) :
         nonTargets(messages, call.ids[1])[i] \in confirmed
   /\ ~TargetIssued) =>
    \E i \in 1..Len(queue["src"]) :
       queue["src"][i] = messages[target(messages, call.ids[1])]

\* C9: deleteMessage, bulkDeleteMessages and bulkMoveMessages return success
\* only after the broker has taken every publish of the call: no frame is
\* still unprocessed and every keep message is in the source queue.
C9_SuccessAfterBrokerTookAll ==
  (Succeeded /\ call.op \in {"deleteMessage", "bulkDeleteMessages",
                             "bulkMoveMessages"}) =>
    /\ inflight = <<>>
    /\ BatchBag(KeepIdx) \sqsubseteq SeqToBag(queue["src"])

\* C10: when several drained messages have the id, a successful moveMessage
\* has put the first occurrence in the target queue and every other drained
\* message, the other occurrences included, back in the source queue.
C10_MoveFirstKeepsRest ==
  (Succeeded /\ call.op = "moveMessage" /\ Cardinality(TargetIdx) > 1) =>
    /\ BatchBag({target(messages, call.ids[1])}) \sqsubseteq SeqToBag(Holding("tgt"))
    /\ BatchBag(Batch \ {target(messages, call.ids[1])})
         \sqsubseteq SeqToBag(Holding("src"))

\* C11: when several drained messages carry the id given to deleteMessage,
\* a successful call discards only the first of them: every other drained
\* message, the later ones with the same id included, is in the source queue
\* or on its way back to it.
C11_DeleteFirstKeepsRest ==
  (Succeeded /\ call.op = "deleteMessage" /\ connected
     /\ Cardinality(TargetIdx) > 1)
    => BatchBag(Batch \ {target(messages, call.ids[1])})
         \sqsubseteq SeqToBag(Holding("src"))

\* every id of the list is the id of exactly one drained message
EachIdOnce ==
  /\ \A i, j \in 1..Len(call.ids) : call.ids[i] = call.ids[j] => i = j
  /\ \A i \in 1..Len(call.ids) :
       Cardinality({k \in Batch : IdAt(messages, k) = call.ids[i]}) = 1

\* C12: a bulkMoveMessages call with at most 1000 ids, each the id of exactly
\* one drained message, that returns leaves in the source queue the drained
\* messages with no listed id, has put the listed ones in the target queue,
\* and returns successCount = number of ids and failCount = 0.
C12_BulkMoveExact ==
  (Succeeded /\ call.op = "bulkMoveMessages" /\ EachIdOnce)
    => /\ SeqToBag(Holding("src")) = BatchBag(KeepIdx) (+) SeqToBag(Undrained)
       /\ SeqToBag(Holding("tgt")) = BatchBag(TargetIdx)
       /\ result.successCount = Len(call.ids)
       /\ result.failCount = 0

\* ---- the chunked bulk calls ----

ChunkReturned == coord.state = "returned"

\* the messages the source queue held before the call whose message_id is
\* one of ids
Named(ids) ==
  SelectSeq(before["src"],
            LAMBDA m : m.message_id # "" /\ m.message_id \in IdSet(ids))

\* the indices of the chunks that failed every attempt
FailedIdx == {coord.failedChunks[n].chunkIndex : n \in 1..Len(coord.failedChunks)}

\* C13: when a chunked bulk call returns, every message whose id belongs to
\* a chunk whose attempts all failed (and whose full size was added to
\* failCount) is still in the source queue.
C13_FailedChunkStays ==
  ChunkReturned =>
    \A c \in FailedIdx :
      SeqToBag(Named(Chunks[c])) \sqsubseteq SeqToBag(Holding("src"))

\* C14: when a chunked bulk call returns after a chunk failed all its
\* attempts, every chunk has been run, the messages of the chunks that
\* succeeded are removed from the source queue (and, for a move, are in the
\* target queue) and counted: of the listed messages only those of the
\* failed chunk remain.
C14_ChunksIndependent ==
  (ChunkReturned /\ FailedIdx # {}) =>
    /\ coord.finished = 1..Len(Chunks)
    /\ \A c \in 1..Len(Chunks) \ FailedIdx :
         /\ \A k \in 1..Len(Holding("src")) :
              Holding("src")[k].message_id \notin IdSet(Chunks[c])
         /\ call.op = "bulkMoveMessages" =>
              SeqToBag(Named(Chunks[c])) \sqsubseteq SeqToBag(Holding("tgt"))
    /\ result.successCount >=
         Len(SelectSeq(before["src"], LAMBDA m :
               \E c \in 1..Len(Chunks) \ FailedIdx :
                  m.message_id # "" /\ m.message_id \in IdSet(Chunks[c])))

\* ---- chunkArray ----

RECURSIVE Concat(_)
Concat(ss) == IF ss = <<>> THEN <<>> ELSE Head(ss) \o Concat(Tail(ss))

\* C15: the chunks of chunkArray, concatenated in order, are the input;
\* every chunk is non-empty and no longer than the chunk size, and every
\* chunk but the last has exactly the chunk size.
C15_ChunkArrayPartitions ==
  coord.state = "chunked" =>
    /\ Concat(coord.chunks) = coord.ids
    /\ \A k \in 1..Len(coord.chunks) :
         /\ Len(coord.chunks[k]) >= 1
         /\ Len(coord.chunks[k]) <= coord.chunkSize
         /\ k < Len(coord.chunks) => Len(coord.chunks[k]) = coord.chunkSize

\* an array of two full chunks and a shorter last one (2500 ids: 1000, 1000, 500)
C15_Witness ==
  /\ coord.state = "chunked"
  /\ Len(coord.chunks) = 3
  /\ Len(coord.chunks[1]) = coord.chunkSize
  /\ Len(coord.chunks[3]) < coord.chunkSize

\* ---- the chunk loop and its retries ----

\* the inner call of the chunk loop is between its start and its return
AttemptRunning ==
  coord.state = "running" /\ pc \in {"ensure", "fetch", "classify", "join"}

\* C16: the chunks are run one after the other: while the call for a chunk
\* is running (and so while its drain is outstanding), every earlier chunk has
\* completed, as a success or as a recorded failure, and no later chunk and
\* not this one has.
C16_ChunksSequential ==
  AttemptRunning => coord.finished = 1..(coord.i - 1)

\* the second chunk is draining after the first has completed
C16_Witness ==
  /\ coord.state = "running"
  /\ coord.i = 2
  /\ pc = "classify"
  /\ 1 \in coord.finished

\* the attempts made for chunk c so far
Tried(cd, c) == IF c \in DOMAIN cd.tried THEN cd.tried[c] ELSE 0

\* C17: a chunk is attempted at most 3 times; no attempt starts for a chunk
\* that has returned or has been given up; a chunk is given up only after
\* its third attempt failed, with the error of that attempt.
C17_RetryBounded ==
  [][ /\ \A c \in DOMAIN coord'.tried :
           /\ coord'.tried[c] <= ChunkRetries + 1
           /\ coord'.tried[c] > Tried(coord, c) => c \notin coord.finished
      /\ Len(coord'.failedChunks) > Len(coord.failedChunks) =>
           /\ coord.tried[coord.i] = ChunkRetries + 1
           /\ coord'.failedChunks[Len(coord'.failedChunks)].error = result.error
           /\ result.status = "error"
    ]_vars

\* a chunk has been given up after three attempts and another has returned
\* after a retry
C17_Witness ==
  /\ coord.state = "returned"
  /\ \E c \in FailedIdx : coord.tried[c] = ChunkRetries + 1
  /\ \E c \in coord.finished \ FailedIdx : coord.tried[c] = 2

\* C18: a chunked bulk call of which a chunk failed all its attempts returns,
\* with the added-up counts, the list of the failed chunks (index and ids).
C18_ReturnsFailedChunks ==
  (ChunkReturned /\ FailedIdx # {}) =>
    /\ result.successCount = coord.totalSuccessCount
    /\ result.failCount = coord.totalFailCount
    /\ "failedChunks" \in DOMAIN result
    /\ result.failedChunks = coord.failedChunks

\* ---- purgeQueue ----

\* C19: a purgeQueue call that returns, with no other producer or consumer
\* on the queue, returns the number of messages the queue held, which is the
\* number the purge removed, and leaves the queue empty.
C19_PurgeCountsRemoved ==
  (purge.pc = "done" /\ purge.status = "ok" /\ ~purge.produced) =>
    /\ purge.successCount = Len(before["src"])
    /\ purge.successCount = purge.removed
    /\ queue["src"] = <<>>

\* C20: a purgeQueue call that has started its drain loop comes to an end,
\* even when another producer keeps adding messages to the queue.
C20_PurgeTerminates ==
  (purge.pc = "receive") ~> (purge.pc = "done")

\* ---- importMessages ----

\* the bodies of the call that cannot be published
Unpublishable == {k \in 1..Len(call.bodies) : ~serializable(call.bodies[k])}

\* C21: an importMessages call whose client is connected publishes every
\* body that can be published, whatever the other bodies are, and returns
\* counts that add up to the number of bodies, failCount being the number of
\* bodies whose publish failed.
C21_ImportReportsEachBody ==
  (pc = "done" /\ call.op = "importMessages"
     /\ result.error # "Failed to reconnect to RabbitMQ") =>
    /\ \A k \in 1..Len(call.bodies) \ Unpublishable :
         \E i \in 1..Len(Holding("src")) :
            Holding("src")[i].payload = call.bodies[k]
    /\ result.status = "ok"
    /\ result.successCount + result.failCount = Len(call.bodies)
    /\ result.failCount = Cardinality(Unpublishable)

\* ---- getMessages and exportMessages ----

Reads == {"getMessages", "exportMessages"}

\* C22: getMessages and exportMessages leave the queue as it was: during
\* and after the call, returned or failed, the queue holds the same messages
\* as before.
C22_ReadsKeepQueue ==
  call.op \in Reads => SeqToBag(queue["src"]) = SeqToBag(before["src"])

\* a read has returned messages it took from a queue that holds them still
C22_Witness ==
  /\ pc = "done"
  /\ call.op \in Reads
  /\ Len(messages) = ReadLimit
  /\ Len(result.affected) > 0
  /\ Len(queue["src"]) > ReadLimit

\* the bodies of the messages of the queue whose id is in ids
RECURSIVE BodiesWithId(_, _, _)
BodiesWithId(q, idSet, k) ==
  IF k > Len(q) THEN <<>>
  ELSE (IF IdAt(q, k) \in idSet THEN <<parse(q[k].payload)>> ELSE <<>>)
       \o BodiesWithId(q, idSet, k + 1)

\* C23: exportMessages returns the bodies of exactly the messages of the
\* queue whose id is in ids, however many messages the queue holds, and
\* ends with an error when the queue could not be read.
C23_ExportExact ==
  (pc = "done" /\ call.op = "exportMessages" /\ call.ids # <<>>) =>
    IF cur = 1
    THEN /\ result.status = "ok"
         /\ result.affected = BodiesWithId(queue["src"], IdSet(call.ids), 1)
    ELSE result.status = "error"

\* ---- publishWithReceipt ----

PwrStages == {"pwr_enter", "pwr_send", "pwr_wait"}

\* C24: publishWithReceipt returns only when the receipt of its current
\* attempt has arrived; every attempt publishes with a receipt id no earlier
\* frame carried; there are at most 3 attempts, and the call fails only
\* after the third or when the client is not connected at entry.
C24_ConfirmedPublish ==
  [][ /\ (pc = "pwr_wait" /\ pc' \in {"pwr_enter", "done"}
            /\ result'.status # "error")
           => <<cur, attempt>> \in receipts
      /\ (pc = "pwr_send" /\ pc' = "pwr_wait")
           => LET f == inflight'[Len(inflight')]
              IN /\ f.receipt = <<cur, attempt>>
                 /\ f.receipt \notin receipts
                 /\ \A i \in 1..Len(inflight) : inflight[i].receipt # f.receipt
      /\ attempt' <= PublishRetries
      /\ (pc \in PwrStages /\ pc' = "done" /\ result'.status = "error")
           => (attempt = PublishRetries \/ pc = "pwr_enter")
    ]_vars

\* a move has returned after a publish that was confirmed at its second or
\* third attempt
C24_Witness ==
  /\ Succeeded
  /\ call.op = "moveMessage"
  /\ \E r \in receipts : r[2] >= 1 /\ PubList[r[1]] \in confirmed

\* ---- connect ----

\* the outcome the first event after the activation of the client stands for
OutcomeOf(e) ==
  IF e = "onConnect" THEN [state |-> "resolved", error |-> ""]
  ELSE IF e = "onStompError" THEN [state |-> "rejected", error |-> "STOMP error"]
  ELSE IF e = "onWebSocketError"
       THEN [state |-> "rejected", error |-> "WebSocket connection failed"]
  ELSE [state |-> "rejected", error |-> "Connection timeout after 10 seconds"]

\* C25: the promise of connect() is settled by the first of: STOMP
\* connected, STOMP error, WebSocket error, the 10 s timer; once settled it
\* keeps its outcome, and it does not stay pending for ever.
C25_ConnectSettlesOnce ==
  /\ []((Len(connectCall.events) >= 2 /\ connectCall.events[1] = "activate") =>
          /\ connectCall.state = OutcomeOf(connectCall.events[2]).state
          /\ connectCall.error = OutcomeOf(connectCall.events[2]).error)
  /\ [](connectCall.events = <<"activate">> => connectCall.state = "pending")
  /\ [][connectCall.state \in {"resolved", "rejected"} =>
          /\ connectCall'.state = connectCall.state
          /\ connectCall'.error = connectCall.error]_vars
  /\ (connectCall.state = "pending") ~> (connectCall.state # "pending")

\* the client connected after the promise had been rejected by the timer
C25_Witness ==
  /\ Len(connectCall.events) >= 3
  /\ connectCall.events[2] = "timeout"
  /\ connectCall.events[3] = "onConnect"
  /\ connectCall.state = "rejected"

\* ---- two calls on one queue ----

\* C26: nothing holds back the drain of a call while another call on the
\* same queue is between its drain and its return, so the calls interleave.
C26_NoQueueLock ==
  other.pc = "fetch" => ENABLED otherFetch

\* the outcome no serial order gives: two deleteMessage calls for different
\* ids that were both in the queue; the second drained an empty queue while
\* the first held the batch, reports its target not found, and the first
\* put that target back
C26_Witness ==
  /\ Succeeded
  /\ call.op = "deleteMessage"
  /\ other.pc = "done"
  /\ other.during = "classify"
  /\ other.error = "Message not found in queue"
  /\ other.messageId # call.ids[1]
  /\ \E k \in 1..Len(before["src"]) : IdAt(before["src"], k) = other.messageId
  /\ \E k \in 1..Len(before["src"]) : IdAt(before["src"], k) = call.ids[1]
  /\ \E k \in 1..Len(Holding("src")) :
        Holding("src")[k].message_id = other.messageId

\* ---- message ids ----

\* the listing holds exactly one message with this body
OnlyOne(body) ==
  Cardinality({i \in 1..Len(listing) : listing[i].body = body}) = 1

\* C27: between calls, a message that getMessages listed and that is still
\* in the queue is classified by the mutation operations under the id it was
\* listed with, whatever was deleted or requeued in between.
C27_StableIds ==
  (pc = "idle" /\ inflight = <<>>) =>
    \A i \in 1..Len(listing) : \A k \in 1..Len(queue["src"]) :
      (parse(queue["src"][k].payload) = listing[i].body
         /\ OnlyOne(listing[i].body))
        => IdAt(queue["src"], k) = listing[i].id

\* ---- the headers of a republished message ----

\* C28: whichever operation republishes a message, it copies every original
\* header that has a value and is not reserved by the transport, and copies
\* none of content-length, content-type, message-id, receipt, destination and
\* subscription, in whatever case the name is written.
C28_ReservedHeadersDropped ==
  (probe.fn = "headers" /\ probe.op # "none") =>
    /\ \A k \in DOMAIN probe.out : toLowerCase(k) \notin disallowed
    /\ \A k \in DOMAIN probe.headers :
         (toLowerCase(k) \notin disallowed /\ probe.headers[k] # Null)
           => (k \in DOMAIN probe.out /\ probe.out[k] = probe.headers[k])

\* ---- generateInternalId ----

C35_RejectedStaysDisconnected ==
  connectCall.state = "rejected" => connection # "connected"

\* ---- saving an edited message ----

\* the new body has been sent: it is on its way to the queue or in it
NewBodySent ==
  \E i \in 1..Len(Holding("src")) : Holding("src")[i].payload = edit.body

\* C31: the handler sends the new body only after deleteMessage returned
\* success: a frame with the new body is published only in the step after a
\* successful delete, and when the delete failed the new body is never sent,
\* so the old message and the new one are not both in the queue.
C31_SendAfterDelete ==
  /\ [](edit.pc = "failed" => ~NewBodySent)
  /\ [](edit.pc \in {"sending", "done"} => result.status = "ok")
  /\ [][Len(inflight') > Len(inflight)
          /\ inflight'[Len(inflight')].msg.payload = "z"
        => (edit.pc = "sending" /\ result.status = "ok")]_vars

\* the delete of a message that is in the queue failed, the handler has
\* stopped, and the old message is back or still in the queue without the
\* new one
C31_Witness ==
  /\ edit.pc = "failed"
  /\ edit.error = "delete"
  /\ \E k \in 1..Len(before["src"]) : IdAt(before["src"], k) = edit.id
  /\ queue["src"] # <<>>

\* ---- the counts of a bulk call ----

\* the positions of the id list whose id matched no drained message
Unmatched ==
  {i \in 1..Len(call.ids) :
     \A k \in 1..Len(messages) : IdAt(messages, k) # call.ids[i]}

\* C32: a bulk call that returns reports counts that are not negative and
\* add up to the number of requested ids, and failCount is the number of
\* requested ids that matched no drained message.
C32_BulkCountsConsistent ==
  (pc = "done" /\ result.status = "ok"
     /\ call.op \in {"bulkDeleteMessages", "bulkMoveMessages"}) =>
    /\ result.successCount >= 0
    /\ result.failCount >= 0
    /\ result.successCount + result.failCount = Len(call.ids)
    /\ result.failCount = Cardinality(Unmatched)

\* C33: when bulkMoveMessages returns, successCount is the number of
\* messages it published to the target queue (the target queue was empty
\* when the call started, so these are the messages it holds or is about to
\* receive).
C33_MovedMeansPublished ==
  (pc = "done" /\ result.status = "ok" /\ call.op = "bulkMoveMessages") =>
    result.successCount = Len(Holding("tgt"))

\* ---- the order of the id list ----

\* C34: bulkDeleteMessages gives the same outcome for an id list and for
\* any permutation of it, lists longer than the chunk limit included: the
\* same counts and the same messages left in the queue.
C34_OrderIndependent ==
  (probe.fn = "bulkDeleteMessages" /\ probe.done) =>
    /\ probe.out.successCount = probe.outPerm.successCount
    /\ probe.out.failCount = probe.outPerm.failCount
    /\ SeqToBag(probe.out.queue) = SeqToBag(probe.outPerm.queue)

\* ---- transports without a registry entry ----

\* C36: whatever addConnection and removeConnection calls were made, every
\* service whose transport is connected is the service of a registry entry
\* (or of a call that is still running and will register or close it).
C36_ConnectedIsRegistered ==
  \A s \in mgr.open :
    \/ \E id \in DOMAIN mgr.services : mgr.services[id] = s
    \/ \E r \in mgr.removes : r.service = s

\* ---- Azure deleteMessage and moveMessage ----

\* the message with sequence number n is in the target queue
InTarget(n) ==
  \E j \in 1..Len(azure.queue["tgt"]) :
    azure.queue["tgt"][j].sequenceNumber = n

\* C37: in the Azure moveMessage a message is completed in the source queue
\* only when it has been sent to the target queue; after a failed send it is
\* still in the source queue; so every message is always in at least one of
\* the two queues.
C37_SendBeforeComplete ==
  azure.op = "moveMessage" =>
    /\ \A k \in 1..Len(azure.queue["src"]) :
         azure.queue["src"][k].state = "completed"
           => InTarget(azure.queue["src"][k].sequenceNumber)
    /\ azure.error = "send failed"
         => \A k \in 1..Len(azure.queue["src"]) :
              azure.queue["src"][k].state # "completed"

\* a move has returned: its message is completed in the source queue and is
\* in the target queue
C37_Witness ==
  /\ azure.op = "moveMessage"
  /\ azure.pc = "done"
  /\ azure.status = "ok"
  /\ \E k \in 1..Len(azure.queue["src"]) :
       /\ azure.queue["src"][k].state = "completed"
       /\ InTarget(k)

\* the batch positions of the messages the call received and did not match
\* before it returned
OthersReceived == {j \in 1..Len(azure.batch) : j # azure.i}

\* C38: an Azure deleteMessage or moveMessage that returns has completed at
\* most one message, the first received one whose messageId or
\* sequenceNumber equals the id, and every other message of the batch it
\* received has been abandoned: none is left locked by the call.
C38_OneCompletedRestAbandoned ==
  (azure.pc = "done" /\ azure.status = "ok") =>
    /\ Cardinality({k \in 1..Len(azure.queue["src"]) :
                      azure.queue["src"][k].state = "completed"}) <= 1
    /\ azureMatches(azure.queue["src"][azure.batch[azure.i]], azure.id)
    /\ \A j \in 1..(azure.i - 1) :
         ~azureMatches(azure.queue["src"][azure.batch[j]], azure.id)
    /\ \A j \in OthersReceived :
         azure.queue["src"][azure.batch[j]].state = "active"

\* ---- the entry of the queue operations ----

\* a connect() call has resolved and disconnect() was not called since
Connected == connectCall.state = "resolved"

\* C39: a queue operation called before a connect() has succeeded, or after
\* disconnect(), throws at its entry and touches neither the queues nor the
\* connection: it does not go on to its drain or its publishes.
C39_GuardedEntry ==
  [][(pc \in {"idle", "done"} /\ ~Connected)
       => /\ pc' \in {"idle", "done"}
          /\ <<call, result>>' # <<call, result>> => result'.status = "error"
          /\ queue' = queue
          /\ inflight' = inflight]_vars

====
